---------------------------- MODULE Spec2Model ----------------------------
(***************************************************************************)
(* A model of the obfuscation / restoration engine of wangweihong/myai:    *)
(*   src/comfyui/scripts/confused_text.py      (text, modes basic/advanced)*)
(*   src/comfyui/prompts/scirpts/text_processor.py (text, basic/advanced/  *)
(*                                              aes)                       *)
(*   src/comfyui/scripts/confused_image.py     (RGB pixel buffers)         *)
(*                                                                         *)
(* Python values are modelled as follows.                                  *)
(*   str        a sequence of code points (integers)                       *)
(*   bytes      a sequence of integers 0..255                              *)
(*   dict       a function whose domain is the set of keys                 *)
(*   a call     a record [exc, why, val, py, np]: exc = "" when the call   *)
(*              returns val, otherwise the name of the exception raised;   *)
(*              py and np are the states of the two process-wide seeded    *)
(*              generators (random, numpy.random) when the call ends.      *)
(*   key        IntKey(n) for the int n, StrKey(s) for the str s           *)
(*                                                                         *)
(* Library code that is not part of the repository is modelled by what it  *)
(* does: UTF-8, base64 (binascii's non-strict decoder), PKCS#7 padding,    *)
(* CBC chaining, random.shuffle / random.sample / numpy's permutation      *)
(* (Fisher-Yates with rejection sampling) are computed as the libraries    *)
(* compute them.  Three primitives are replaced by small stand-ins of the  *)
(* same shape: the Mersenne Twister by a 16-bit linear congruential        *)
(* generator (MTNext), deflate by zlib's stored-block format, and          *)
(* PBKDF2 / the AES block function by a small keyed byte permutation.      *)
(***************************************************************************)
EXTENDS Integers, Sequences, FiniteSets, TLC

(***************************************************************************)
(* Bounds of the model.                                                    *)
(***************************************************************************)
MaxLen == 3        \* enumerated texts have at most MaxLen characters

(***************************************************************************)
(* Generic helpers.                                                        *)
(***************************************************************************)
Range(a, b) == [i \in 1..(b - a + 1) |-> a + i - 1]

SeqSet(s) == {s[i] : i \in DOMAIN s}

Abs(n) == IF n < 0 THEN -n ELSE n

RECURSIVE Pow2(_)
Pow2(n) == IF n <= 0 THEN 1 ELSE 2 * Pow2(n - 1)

RECURSIVE bit_length(_)
bit_length(n) == IF n = 0 THEN 0 ELSE 1 + bit_length(n \div 2)

RECURSIVE BitXor(_, _)
BitXor(a, b) ==
    IF a = 0 THEN b
    ELSE IF b = 0 THEN a
    ELSE ((a + b) % 2) + 2 * BitXor(a \div 2, b \div 2)

\* The concatenation of parts[lo..hi] (halving keeps the evaluation shallow).
RECURSIVE JoinRange(_, _, _)
JoinRange(parts, lo, hi) ==
    IF lo > hi THEN <<>>
    ELSE IF lo = hi THEN parts[lo]
    ELSE JoinRange(parts, lo, (lo + hi) \div 2)
            \o JoinRange(parts, ((lo + hi) \div 2) + 1, hi)

Join(parts) == JoinRange(parts, 1, Len(parts))

\* An exchange that forgets its second assignment.
Swap_overwrite(x, i, j) == [x EXCEPT ![i] = x[j]]

Swap(x, i, j) == [x EXCEPT ![i] = x[j], ![j] = x[i]]

\* The outcome of a Python call: it returns val, or raises exc.
Ok(v, py, np) == [exc |-> "", why |-> "", val |-> v, py |-> py, np |-> np]
Raise(e, why, py, np) == [exc |-> e, why |-> why, val |-> <<>>, py |-> py, np |-> np]

\* A pure library call: it returns val or raises exc.
Ret(v) == [exc |-> "", val |-> v]
Err(e) == [exc |-> e, val |-> <<>>]

\* A key: the int n, or the str s (the other field is unused).
IntKey(n) == [kind |-> "int", n |-> n, s |-> <<>>]
StrKey(s) == [kind |-> "str", n |-> 0, s |-> s]

(***************************************************************************)
(* The seeded generators.  MTNext stands for one output of the Mersenne    *)
(* Twister; what the libraries build on it is modelled as they do it.      *)
(***************************************************************************)
MTNext(st) == (st * 25173 + 13849) % 65536

\* random.seed(a): an int seeds with abs(a), a str with an integer computed
\* from its bytes (sha512 in CPython: a fixed function of the text).
RECURSIVE WeightedSum(_, _, _)
WeightedSum(s, lo, hi) ==
    IF lo > hi THEN 0
    ELSE IF lo = hi THEN (lo + 30) * s[lo]
    ELSE WeightedSum(s, lo, (lo + hi) \div 2)
            + WeightedSum(s, ((lo + hi) \div 2) + 1, hi)

StrHash(s) == (7 + WeightedSum(s, 1, Len(s))) % 65521

random_seed(a) ==
    LET n == IF a.kind = "int" THEN Abs(a.n) ELSE StrHash(a.s)
    IN  (n * 4093 + 577) % 65536

\* Random.getrandbits(k): the top k bits of one generator output.
getrandbits(k, st) ==
    LET s1 == MTNext(st) IN [r |-> s1 \div Pow2(16 - k), st |-> s1]

\* Random._randbelow_with_getrandbits(n), n > 0.
RECURSIVE randbelow(_, _)
randbelow(n, st) ==
    LET g == getrandbits(bit_length(n), st)
    IN  IF g.r >= n THEN randbelow(n, g.st) ELSE g

\* A loop of the code is modelled by its body (one iteration on the loop's
\* state s) and an operator running iterations lo..hi in order; the range is
\* halved only to keep TLC's evaluation shallow.  s.exc # "" ends the loop.

\* random.shuffle(x): for i in reversed(range(1, len(x))):
\*     j = randbelow(i + 1); x[i], x[j] = x[j], x[i]
shuffle_step(s, k) ==
    LET i == Len(s.x) - k
        d == randbelow(i + 1, s.st)
    IN  [exc |-> "", x |-> Swap(s.x, i + 1, d.r + 1), st |-> d.st]

RECURSIVE shuffle_loop(_, _, _)
shuffle_loop(s, lo, hi) ==
    IF s.exc # "" \/ lo > hi THEN s
    ELSE IF lo = hi THEN shuffle_step(s, lo)
    ELSE shuffle_loop(shuffle_loop(s, lo, (lo + hi) \div 2),
                      ((lo + hi) \div 2) + 1, hi)

random_shuffle(x, st) ==
    shuffle_loop([exc |-> "", x |-> x, st |-> st], 1, Len(x) - 1)

\* random.sample(population, k) with k = len(population), the pool branch:
\*     for i in range(k): j = randbelow(n - i); result[i] = pool[j];
\*                        pool[j] = pool[n - i - 1]
\* A draw that leaves the drawn element in the pool.
sample_step_with_replacement(s, k) ==
    LET d == randbelow(Len(s.pool) - (k - 1), s.st)
    IN  [exc |-> "", pool |-> s.pool, x |-> Append(s.x, s.pool[d.r + 1]),
         st |-> d.st]

sample_step(s, k) ==
    LET n == Len(s.pool)
        i == k - 1
        d == randbelow(n - i, s.st)
    IN  [exc |-> "", pool |-> [s.pool EXCEPT ![d.r + 1] = s.pool[n - i]],
         x |-> Append(s.x, s.pool[d.r + 1]), st |-> d.st]

RECURSIVE sample_loop(_, _, _)
sample_loop(s, lo, hi) ==
    IF s.exc # "" \/ lo > hi THEN s
    ELSE IF lo = hi THEN sample_step(s, lo)
    ELSE sample_loop(sample_loop(s, lo, (lo + hi) \div 2),
                     ((lo + hi) \div 2) + 1, hi)

random_sample(population, st) ==
    sample_loop([exc |-> "", pool |-> population, x |-> <<>>, st |-> st],
                1, Len(population))

\* numpy.random.seed(seed): an integer in 0 .. 2**32 - 1, anything else raises
\* (the integers of the model stay below 2**31, so only the lower limit shows).
np_seed_valid(a) == a.kind = "int" /\ a.n >= 0

np_random_seed(a) == (a.n * 2053 + 13) % 65536

\* numpy's bounded draw (rk_interval): mask the output, reject above max.
RECURSIVE rk_interval(_, _)
rk_interval(max, st) ==
    IF max = 0 THEN [r |-> 0, st |-> st]
    ELSE LET s1 == MTNext(st)
             v  == (s1 \div 64) % Pow2(bit_length(max))
         IN  IF v > max THEN rk_interval(max, s1) ELSE [r |-> v, st |-> s1]

\* numpy.random.permutation(n): shuffle(arange(n)):
\*     for i in reversed(range(1, n)): j = rk_interval(i); swap(i, j)
np_shuffle_step(s, k) ==
    LET i == Len(s.x) - k
        d == rk_interval(i, s.st)
    IN  [exc |-> "", x |-> Swap(s.x, i + 1, d.r + 1), st |-> d.st]

RECURSIVE np_shuffle_loop(_, _, _)
np_shuffle_loop(s, lo, hi) ==
    IF s.exc # "" \/ lo > hi THEN s
    ELSE IF lo = hi THEN np_shuffle_step(s, lo)
    ELSE np_shuffle_loop(np_shuffle_loop(s, lo, (lo + hi) \div 2),
                         ((lo + hi) \div 2) + 1, hi)

np_random_permutation(n, st) ==
    np_shuffle_loop([exc |-> "", x |-> Range(0, n - 1), st |-> st], 1, n - 1)

\* numpy.argsort of an array of distinct integers.
\* An inverse that is the permutation itself.
np_argsort_same(p) == p

np_argsort(p) ==
    [j \in 1..Len(p) |->
        (CHOOSE i \in 1..Len(p) :
            Cardinality({k \in 1..Len(p) : p[k] < p[i]}) = j - 1) - 1]

\* numpy fancy indexing arr[idx] along the first axis.
np_take(arr, idx) ==
    IF \E i \in DOMAIN idx : idx[i] >= Len(arr) \/ idx[i] < -Len(arr)
    THEN Err("IndexError")
    ELSE Ret([i \in 1..Len(idx) |->
                arr[(IF idx[i] < 0 THEN idx[i] + Len(arr) ELSE idx[i]) + 1]])

(***************************************************************************)
(* Encodings.                                                              *)
(***************************************************************************)
\* str.encode(): UTF-8.
utf8_char(cp) ==
    IF cp < 128 THEN <<cp>>
    ELSE IF cp < 2048 THEN <<192 + (cp \div 64), 128 + (cp % 64)>>
    ELSE IF cp < 65536
         THEN <<224 + (cp \div 4096), 128 + ((cp \div 64) % 64), 128 + (cp % 64)>>
    ELSE <<240 + (cp \div 262144), 128 + ((cp \div 4096) % 64),
           128 + ((cp \div 64) % 64), 128 + (cp % 64)>>

str_encode(text) ==
    IF \E i \in DOMAIN text : text[i] >= 55296 /\ text[i] <= 57343
    THEN Err("UnicodeEncodeError")
    ELSE Ret(Join([i \in 1..Len(text) |-> utf8_char(text[i])]))

\* bytes.decode(): strict UTF-8.
IsCont(b) == b >= 128 /\ b <= 191

\* One character of the decoder: s.i is the next byte to read.
utf8_decode_step(bs, s) ==
    IF s.i > Len(bs) THEN s
    ELSE LET i == s.i
             b == bs[i]
             has(k) == i + k <= Len(bs) /\ \A d \in 1..k : IsCont(bs[i + d])
             next(k, cp) == [exc |-> "", i |-> i + k, val |-> Append(s.val, cp)]
         IN  IF b < 128 THEN next(1, b)
             ELSE IF b >= 194 /\ b <= 223 /\ has(1)
                  THEN next(2, (b - 192) * 64 + (bs[i + 1] - 128))
             ELSE IF b >= 224 /\ b <= 239 /\ has(2)
                     /\ (b = 224 => bs[i + 1] >= 160)
                     /\ (b = 237 => bs[i + 1] <= 159)
                  THEN next(3, (b - 224) * 4096 + (bs[i + 1] - 128) * 64
                               + (bs[i + 2] - 128))
             ELSE IF b >= 240 /\ b <= 244 /\ has(3)
                     /\ (b = 240 => bs[i + 1] >= 144)
                     /\ (b = 244 => bs[i + 1] <= 143)
                  THEN next(4, (b - 240) * 262144 + (bs[i + 1] - 128) * 4096
                               + (bs[i + 2] - 128) * 64 + (bs[i + 3] - 128))
             ELSE [exc |-> "UnicodeDecodeError", i |-> i, val |-> <<>>]

RECURSIVE utf8_decode_loop(_, _, _, _)
utf8_decode_loop(bs, s, lo, hi) ==
    IF s.exc # "" \/ lo > hi THEN s
    ELSE IF lo = hi THEN utf8_decode_step(bs, s)
    ELSE utf8_decode_loop(bs, utf8_decode_loop(bs, s, lo, (lo + hi) \div 2),
                          ((lo + hi) \div 2) + 1, hi)

bytes_decode(bs) ==
    LET r == utf8_decode_loop(bs, [exc |-> "", i |-> 1, val |-> <<>>], 1, Len(bs))
    IN  IF r.exc # "" THEN Err(r.exc) ELSE Ret(r.val)

\* base64: the character of a 6-bit value and back (64 for any other character).
b64_char(v) ==
    IF v < 26 THEN 65 + v
    ELSE IF v < 52 THEN 97 + (v - 26)
    ELSE IF v < 62 THEN 48 + (v - 52)
    ELSE IF v = 62 THEN 43 ELSE 47

b64_value(c) ==
    IF c >= 65 /\ c <= 90 THEN c - 65
    ELSE IF c >= 97 /\ c <= 122 THEN c - 97 + 26
    ELSE IF c >= 48 /\ c <= 57 THEN c - 48 + 52
    ELSE IF c = 43 THEN 62
    ELSE IF c = 47 THEN 63 ELSE 64

\* base64.b64encode(bs).decode(): 3 bytes give 4 characters, '=' pads the last
\* group.
b64_group(bs, g) ==
    LET i  == 3 * g - 2
        b1 == bs[i]
        b2 == IF i + 1 <= Len(bs) THEN bs[i + 1] ELSE 0
        b3 == IF i + 2 <= Len(bs) THEN bs[i + 2] ELSE 0
    IN  << b64_char(b1 \div 4),
           b64_char((b1 % 4) * 16 + (b2 \div 16)),
           IF i + 1 <= Len(bs) THEN b64_char((b2 % 16) * 4 + (b3 \div 64)) ELSE 61,
           IF i + 2 <= Len(bs) THEN b64_char(b3 % 64) ELSE 61 >>

b64encode(bs) == Join([g \in 1..((Len(bs) + 2) \div 3) |-> b64_group(bs, g)])

\* binascii.a2b_base64 (not strict), one character: characters outside the
\* base64 alphabet are skipped, a completing run of '=' ends the input.
a2b_step(text, s, i) ==
    IF s.done THEN s
    ELSE IF text[i] = 61
    THEN IF s.quad_pos >= 2 /\ s.quad_pos + s.pads + 1 >= 4
         THEN [s EXCEPT !.done = TRUE, !.quad_pos = 0]
         ELSE [s EXCEPT !.pads = IF s.quad_pos >= 2 THEN @ + 1 ELSE @]
    ELSE LET v == b64_value(text[i])
         IN  IF v >= 64 THEN s
             ELSE IF s.quad_pos = 0
                  THEN [s EXCEPT !.quad_pos = 1, !.leftchar = v, !.pads = 0]
             ELSE IF s.quad_pos = 1
                  THEN [s EXCEPT !.quad_pos = 2, !.leftchar = v % 16, !.pads = 0,
                                 !.val = Append(@, s.leftchar * 4 + (v \div 16))]
             ELSE IF s.quad_pos = 2
                  THEN [s EXCEPT !.quad_pos = 3, !.leftchar = v % 4, !.pads = 0,
                                 !.val = Append(@, s.leftchar * 16 + (v \div 4))]
             ELSE [s EXCEPT !.quad_pos = 0, !.leftchar = 0, !.pads = 0,
                            !.val = Append(@, s.leftchar * 64 + v)]

RECURSIVE a2b_loop(_, _, _, _)
a2b_loop(text, s, lo, hi) ==
    IF s.exc # "" \/ lo > hi THEN s
    ELSE IF lo = hi THEN a2b_step(text, s, lo)
    ELSE a2b_loop(text, a2b_loop(text, s, lo, (lo + hi) \div 2),
                  ((lo + hi) \div 2) + 1, hi)

\* After the loop a dangling group raises binascii.Error.
a2b_base64(text) ==
    LET r == a2b_loop(text, [exc |-> "", done |-> FALSE, quad_pos |-> 0,
                             leftchar |-> 0, pads |-> 0, val |-> <<>>],
                      1, Len(text))
    IN  IF r.quad_pos # 0 THEN Err("binascii.Error") ELSE Ret(r.val)

\* base64.b64decode(text): a str must be ASCII.
b64decode(text) ==
    IF \E i \in DOMAIN text : text[i] >= 128
    THEN Err("ValueError")
    ELSE a2b_base64(text)

\* zlib.compress / zlib.decompress, in the stored-block form of the format:
\* header, one final stored block (LEN, NLEN, data), Adler-32 of the data.
adler_step(bs, s, i) ==
    [exc |-> "", a |-> (s.a + bs[i]) % 65521,
     b |-> (s.b + ((s.a + bs[i]) % 65521)) % 65521]

RECURSIVE adler_loop(_, _, _, _)
adler_loop(bs, s, lo, hi) ==
    IF s.exc # "" \/ lo > hi THEN s
    ELSE IF lo = hi THEN adler_step(bs, s, lo)
    ELSE adler_loop(bs, adler_loop(bs, s, lo, (lo + hi) \div 2),
                    ((lo + hi) \div 2) + 1, hi)

adler32(bs) ==
    LET s == adler_loop(bs, [exc |-> "", a |-> 1, b |-> 0], 1, Len(bs))
    IN  <<s.b \div 256, s.b % 256, s.a \div 256, s.a % 256>>

zlib_compress(bs) ==
    <<120, 1, 1, Len(bs) % 256, Len(bs) \div 256,
      255 - (Len(bs) % 256), 255 - (Len(bs) \div 256)>> \o bs \o adler32(bs)

zlib_decompress(bs) ==
    IF Len(bs) < 11 THEN Err("zlib.error")
    ELSE LET n    == bs[4] + 256 * bs[5]
             data == SubSeq(bs, 8, 7 + n)
         IN  IF /\ bs[1] = 120 /\ bs[2] = 1 /\ bs[3] = 1
                /\ bs[6] = 255 - bs[4] /\ bs[7] = 255 - bs[5]
                /\ Len(bs) = n + 11
                /\ SubSeq(bs, 8 + n, 11 + n) = adler32(data)
             THEN Ret(data)
             ELSE Err("zlib.error")

(***************************************************************************)
(* Python containers.                                                      *)
(***************************************************************************)
\* string.ascii_letters, string.digits, string.punctuation
ascii_letters == Range(97, 122) \o Range(65, 90)
digits == Range(48, 57)
punctuation == Range(33, 47) \o Range(58, 64) \o Range(91, 96) \o Range(123, 126)

\* dict(zip(keys, values)) for distinct keys
dict_zip(keys, values) ==
    [c \in SeqSet(keys) |-> values[CHOOSE i \in DOMAIN keys : keys[i] = c]]

\* {v: k for k, v in m.items()} (m is one-to-one wherever the code builds it)
dict_invert(m) ==
    [v \in {m[k] : k \in DOMAIN m} |-> CHOOSE k \in DOMAIN m : m[k] = v]

\* ''.join(m[c] for c in text if c in m): unmapped characters are dropped
map_chars_dropping(m, text) ==
    LET keep == SelectSeq(text, LAMBDA c : c \in DOMAIN m)
    IN  [i \in 1..Len(keep) |-> m[keep[i]]]

\* ''.join(m.get(c, c) for c in text)
map_chars(m, text) ==
    [i \in 1..Len(text) |-> IF text[i] \in DOMAIN m THEN m[text[i]] ELSE text[i]]

\* The state of the two process-wide generators.
Globals(py, np) == [py |-> py, np |-> np]

(***************************************************************************)
(* src/comfyui/scripts/confused_text.py                                    *)
(***************************************************************************)
generate_permutation_key(length, seed) ==
    LET s == random_sample(Range(0, length - 1), random_seed(seed))
    IN  [val |-> s.x, py |-> s.st]

apply_character_substitution(text, seed) ==
    LET chars    == ascii_letters \o digits \o punctuation \o <<32>>
        sh       == random_shuffle(chars, random_seed(seed))
        char_map == dict_zip(chars, sh.x)
    IN  [val |-> <<map_chars(char_map, text), char_map>>, py |-> sh.st]

reverse_character_substitution(text, char_map) ==
    map_chars(dict_invert(char_map), text)

apply_position_permutation(text, seed) ==
    LET k == generate_permutation_key(Len(text), seed)
    IN  [val |-> <<[i \in 1..Len(text) |-> text[k.val[i] + 1]], k.val>>,
         py  |-> k.py]

\* The loop of reverse_position_permutation, iteration new_pos:
\*     restored_chars[orig_pos] = char_list[new_pos]
\* An index outside either list raises IndexError.
scatter_step(char_list, permutation_key, s, new_pos) ==
    LET orig_pos == permutation_key[new_pos + 1]
        n        == Len(s.val)
    IN  IF new_pos >= Len(char_list) \/ orig_pos >= n \/ orig_pos < -n
        THEN Err("IndexError")
        ELSE Ret([s.val EXCEPT
                    ![(IF orig_pos < 0 THEN orig_pos + n ELSE orig_pos) + 1] =
                        <<char_list[new_pos + 1]>>])

RECURSIVE scatter_loop(_, _, _, _, _)
scatter_loop(char_list, permutation_key, s, lo, hi) ==
    IF s.exc # "" \/ lo > hi THEN s
    ELSE IF lo = hi THEN scatter_step(char_list, permutation_key, s, lo - 1)
    ELSE scatter_loop(char_list, permutation_key,
                      scatter_loop(char_list, permutation_key, s, lo,
                                   (lo + hi) \div 2),
                      ((lo + hi) \div 2) + 1, hi)

\* A restoration that leaves every character where it is.
reverse_position_permutation_skipped(text, permutation_key) == Ret(text)

reverse_position_permutation(text, permutation_key) ==
    LET r == scatter_loop(text, permutation_key,
                          Ret([i \in 1..Len(text) |-> <<>>]),
                          1, Len(permutation_key))
    IN  IF r.exc # "" THEN r ELSE Ret(Join(r.val))

apply_compression(text) ==
    LET e == str_encode(text)
    IN  IF e.exc # "" THEN e ELSE Ret(b64encode(zlib_compress(e.val)))

reverse_compression(compressed_text) ==
    LET decoded == b64decode(compressed_text)
    IN  IF decoded.exc # "" THEN decoded
        ELSE LET z == zlib_decompress(decoded.val)
             IN  IF z.exc # "" THEN z ELSE bytes_decode(z.val)

\* An entry point that treats every mode name as basic.
ct_apply_confusion_any_mode(text, key, mode, g) ==
    LET p == apply_position_permutation(text, key)
    IN  Ok(<<p.val[1], [permutation_key |-> p.val[2]]>>, p.py, g.np)

\* confused_text.apply_confusion(text, key, mode), entered with the generators
\* in state g.
ct_apply_confusion(text, key, mode, g) ==
    IF mode = "basic"
    THEN LET p == apply_position_permutation(text, key)
         IN  Ok(<<p.val[1], [permutation_key |-> p.val[2]]>>, p.py, g.np)
    ELSE IF mode = "advanced"
    THEN LET s == apply_character_substitution(text, key)
         IN  IF key.kind # "int"
             THEN Raise("TypeError", "key + 1", s.py, g.np)
             ELSE LET p == apply_position_permutation(s.val[1], IntKey(key.n + 1))
                      c == apply_compression(p.val[1])
                  IN  IF c.exc # "" THEN Raise(c.exc, "apply_compression", p.py, g.np)
                      ELSE Ok(<<c.val, [char_map |-> s.val[2],
                                        permutation_key |-> p.val[2]]>>,
                              p.py, g.np)
    ELSE Raise("ValueError", "unknown mode", g.py, g.np)

\* confused_text.restore_text(confused_text, key, metadata, mode)
ct_restore_text(confused_text, key, metadata, mode, g) ==
    IF mode = "basic"
    THEN IF "permutation_key" \notin DOMAIN metadata
         THEN Raise("KeyError", "permutation_key", g.py, g.np)
         ELSE LET r == reverse_position_permutation(confused_text,
                                                    metadata.permutation_key)
              IN  IF r.exc # ""
                  THEN Raise(r.exc, "reverse_position_permutation", g.py, g.np)
                  ELSE Ok(r.val, g.py, g.np)
    ELSE IF mode = "advanced"
    THEN LET d == reverse_compression(confused_text)
         IN  IF d.exc # "" THEN Raise(d.exc, "reverse_compression", g.py, g.np)
             ELSE IF "permutation_key" \notin DOMAIN metadata
             THEN Raise("KeyError", "permutation_key", g.py, g.np)
             ELSE LET r == reverse_position_permutation(d.val,
                                                        metadata.permutation_key)
                  IN  IF r.exc # ""
                      THEN Raise(r.exc, "reverse_position_permutation", g.py, g.np)
                      ELSE IF "char_map" \notin DOMAIN metadata
                      THEN Raise("KeyError", "char_map", g.py, g.np)
                      ELSE Ok(reverse_character_substitution(r.val,
                                                             metadata.char_map),
                              g.py, g.np)
    ELSE Raise("ValueError", "unknown mode", g.py, g.np)

(***************************************************************************)
(* src/comfyui/prompts/scirpts/text_processor.py                           *)
(***************************************************************************)
SaltLen == 16          \* os.urandom(16)
AesBlockSize == 16     \* AES.block_size
KeyLen == 32           \* dklen of pbkdf2_hmac

\* What os.urandom(n) may return: two values stand for the 256**n.
urandom(n) == {[i \in 1..n |-> (7 * i) % 256], [i \in 1..n |-> 255 - i]}

\* hashlib.pbkdf2_hmac('sha256', password, salt, 100000, 32): a fixed function
\* of (password, salt) giving 32 bytes.
pbkdf2_hmac(password, salt) ==
    LET h == StrHash(password \o salt)
    IN  [i \in 1..KeyLen |-> (h * i + (h \div 256) + i) % 256]

\* derive_key(password, salt): password.encode() needs a str.
derive_key(password, salt) ==
    IF password.kind # "str" THEN Err("AttributeError")
    ELSE LET e == str_encode(password.s)
         IN  IF e.exc # "" THEN e ELSE Ret(<<pbkdf2_hmac(e.val, salt), salt>>)

\* Crypto.Util.Padding.pad / unpad (PKCS#7)
pad(data, block_size) ==
    LET padding_len == block_size - (Len(data) % block_size)
    IN  data \o [i \in 1..padding_len |-> padding_len]

unpad(padded, block_size) ==
    LET n == Len(padded)
    IN  IF n = 0 \/ n % block_size # 0 THEN Err("ValueError")
        ELSE LET padding_len == padded[n]
             IN  IF padding_len < 1 \/ padding_len > block_size
                    \/ \E i \in (n - padding_len + 1)..n : padded[i] # padding_len
                 THEN Err("ValueError")
                 ELSE Ret(SubSeq(padded, 1, n - padding_len))

\* The AES block function and its inverse: a permutation of the 16-byte blocks
\* chosen by the key.
block_encrypt(key, block) ==
    [i \in 1..AesBlockSize |-> (block[i] + key[i] + key[i + AesBlockSize]) % 256]

block_decrypt(key, block) ==
    [i \in 1..AesBlockSize |-> (block[i] - key[i] - key[i + AesBlockSize]) % 256]

XorBlock(a, b) == [i \in 1..AesBlockSize |-> BitXor(a[i], b[i])]

BlockOf(data, j) == SubSeq(data, AesBlockSize * (j - 1) + 1, AesBlockSize * j)

\* AES.new(key, AES.MODE_CBC, iv).encrypt(data): c[j] = E(p[j] xor c[j-1]), c[0] = iv
RECURSIVE cbc_cipher_block(_, _, _, _)
cbc_cipher_block(key, iv, data, j) ==
    IF j = 0 THEN iv
    ELSE block_encrypt(key, XorBlock(BlockOf(data, j),
                                     cbc_cipher_block(key, iv, data, j - 1)))

cbc_encrypt(key, iv, data) ==
    IF Len(iv) # AesBlockSize \/ Len(data) % AesBlockSize # 0 THEN Err("ValueError")
    ELSE Ret(Join([j \in 1..(Len(data) \div AesBlockSize) |->
                        cbc_cipher_block(key, iv, data, j)]))

\* ... .decrypt(data): p[j] = D(c[j]) xor c[j-1]
cbc_decrypt(key, iv, data) ==
    IF Len(iv) # AesBlockSize \/ Len(data) % AesBlockSize # 0 THEN Err("ValueError")
    ELSE Ret(Join([j \in 1..(Len(data) \div AesBlockSize) |->
                        XorBlock(block_decrypt(key, BlockOf(data, j)),
                                 IF j = 1 THEN iv ELSE BlockOf(data, j - 1))]))

\* str(e) of a caught exception, abbreviated to the initial of its class.
exc_text(e) ==
    IF e = "ValueError" THEN <<86>>
    ELSE IF e = "binascii.Error" THEN <<66>>
    ELSE IF e = "UnicodeDecodeError" THEN <<85>>
    ELSE IF e = "AttributeError" THEN <<65>>
    ELSE <<69>>

\* "解密错误: " + str(e), what aes_decrypt returns from its except branch
decrypt_error_text(e) == <<35299, 23494, 38169, 35823, 58, 32>> \o exc_text(e)

\* "解码错误 - 请检查密钥是否正确", what advanced_text_restore returns from its
\* except branch
decode_error_text ==
    <<35299, 30721, 38169, 35823, 32, 45, 32, 35831, 26816, 26597, 23494,
      38053, 26159, 21542, 27491, 30830>>

\* aes_encrypt(text, password) with the salt and iv that os.urandom returned
aes_encrypt(text, password, salt, iv) ==
    LET k == derive_key(password, salt)
    IN  IF k.exc # "" THEN k
        ELSE LET e == str_encode(text)
             IN  IF e.exc # "" THEN e
                 ELSE LET c == cbc_encrypt(k.val[1], iv, pad(e.val, AesBlockSize))
                      IN  IF c.exc # "" THEN c
                          ELSE Ret(b64encode(salt \o iv \o c.val))

\* A split that takes the IV from the first bytes and the salt after it.
envelope_split_iv_first(combined) ==
    [salt       |-> SubSeq(combined, AesBlockSize + 1, AesBlockSize + SaltLen),
     iv         |-> SubSeq(combined, 1, AesBlockSize),
     ciphertext |-> SubSeq(combined, SaltLen + AesBlockSize + 1, Len(combined))]

\* salt = combined[:16]; iv = combined[16:16 + AES.block_size];
\* ciphertext = combined[16 + AES.block_size:]    (a slice never raises)
envelope_split(combined) ==
    [salt       |-> SubSeq(combined, 1, SaltLen),
     iv         |-> SubSeq(combined, SaltLen + 1, SaltLen + AesBlockSize),
     ciphertext |-> SubSeq(combined, SaltLen + AesBlockSize + 1, Len(combined))]

\* The body of the try block of aes_decrypt.
aes_decrypt_try(encrypted_text, password) ==
    LET combined == b64decode(encrypted_text)
    IN  IF combined.exc # "" THEN combined
        ELSE LET salt       == envelope_split(combined.val).salt
                 iv         == envelope_split(combined.val).iv
                 ciphertext == envelope_split(combined.val).ciphertext
                 k          == derive_key(password, salt)
             IN  IF k.exc # "" THEN k
                 ELSE LET d == cbc_decrypt(k.val[1], iv, ciphertext)
                      IN  IF d.exc # "" THEN d
                          ELSE LET u == unpad(d.val, AesBlockSize)
                               IN  IF u.exc # "" THEN u ELSE bytes_decode(u.val)

\* aes_decrypt(encrypted_text, password): every exception becomes a returned str.
aes_decrypt(encrypted_text, password) ==
    LET r == aes_decrypt_try(encrypted_text, password)
    IN  IF r.exc # "" THEN Ret(decrypt_error_text(r.exc)) ELSE r

\* numpy.array(char_list) read back element by element: the elements are
\* fixed-width '<U1' strings, and numpy strips trailing NUL code points when an
\* element is read, so the element stored for chr(0) reads as ''.
np_str_array(char_list) ==
    [i \in 1..Len(char_list) |-> IF char_list[i] = 0 THEN <<>> ELSE <<char_list[i]>>]

\* ''.join(np.array(char_list)[index])
np_take_join(char_list, index) ==
    LET t == np_take(np_str_array(char_list), index)
    IN  IF t.exc # "" THEN t ELSE Ret(Join(t.val))

\* The character map both basic functions build from the key.
tp_char_map(mapping, key) ==
    LET sh == random_shuffle(mapping, random_seed(key))
    IN  [val |-> dict_zip(mapping, sh.x), py |-> sh.st]

basic_text_confusion(text, key, g) ==
    LET mapping       == ascii_letters \o digits \o punctuation \o <<32>>
        m             == tp_char_map(mapping, key)
        confused_text == map_chars(m.val, text)
    IN  IF ~np_seed_valid(key)
        THEN Raise(IF key.kind = "int" THEN "ValueError" ELSE "TypeError",
                   "np.random.seed", m.py, g.np)
        ELSE LET p == np_random_permutation(Len(confused_text), np_random_seed(key))
                 j == np_take_join(confused_text, p.x)
             IN  IF j.exc # "" THEN Raise(j.exc, "index", m.py, p.st)
                 ELSE Ok(<<j.val, p.x>>, m.py, p.st)

advanced_text_confusion(text, key, g) ==
    LET e == str_encode(text)
    IN  IF e.exc # "" THEN Raise(e.exc, "encode", g.py, g.np)
        ELSE LET encoded       == b64encode(e.val)
                 mapping       == ascii_letters \o digits \o punctuation
                 m             == tp_char_map(mapping, key)
                 replaced_text == map_chars(m.val, encoded)
             IN  IF ~np_seed_valid(key)
                 THEN Raise(IF key.kind = "int" THEN "ValueError" ELSE "TypeError",
                            "np.random.seed", m.py, g.np)
                 ELSE LET p == np_random_permutation(Len(replaced_text),
                                                     np_random_seed(key))
                          j == np_take_join(replaced_text, p.x)
                      IN  IF j.exc # "" THEN Raise(j.exc, "index", m.py, p.st)
                          ELSE Ok(<<j.val, p.x>>, m.py, p.st)

\* text_processor.apply_text_confusion(text, key, mode): (text, permutation) in
\* the modes basic and advanced, the text alone (here a 1-tuple) in mode aes.
tp_apply_text_confusion(text, key, mode, salt, iv, g) ==
    IF mode = "basic" THEN basic_text_confusion(text, key, g)
    ELSE IF mode = "advanced" THEN advanced_text_confusion(text, key, g)
    ELSE IF mode = "aes"
    THEN LET r == aes_encrypt(text, key, salt, iv)
         IN  IF r.exc # "" THEN Raise(r.exc, "aes_encrypt", g.py, g.np)
             ELSE Ok(<<r.val>>, g.py, g.np)
    ELSE Raise("ValueError", "unknown mode", g.py, g.np)

\* The permutation basic_text_restore draws again from the key:
\*     np.random.seed(key); np.random.permutation(len(char_list))
original_permutation(confused_text, key) ==
    np_random_permutation(Len(confused_text), np_random_seed(key))

basic_text_restore(confused_text, key, permutation, g) ==
    IF ~np_seed_valid(key)
    THEN Raise(IF key.kind = "int" THEN "ValueError" ELSE "TypeError",
               "np.random.seed", g.py, g.np)
    ELSE LET drawn == original_permutation(confused_text, key)
             restored_chars == np_take(np_str_array(confused_text),
                                       np_argsort(permutation))
         IN  IF restored_chars.exc # ""
             THEN Raise(restored_chars.exc, "index", g.py, drawn.st)
             ELSE LET mapping     == ascii_letters \o digits \o punctuation \o <<32>>
                      m           == tp_char_map(mapping, key)
                      reverse_map == dict_invert(m.val)
                  IN  Ok(Join([i \in 1..Len(restored_chars.val) |->
                                  map_chars(reverse_map, restored_chars.val[i])]),
                         m.py, drawn.st)

advanced_text_restore(confused_text, key, permutation, g) ==
    LET restored_text == np_take_join(confused_text, np_argsort(permutation))
    IN  IF restored_text.exc # "" THEN Raise(restored_text.exc, "index", g.py, g.np)
        ELSE LET mapping       == ascii_letters \o digits \o punctuation
                 m             == tp_char_map(mapping, key)
                 replaced_text == map_chars(dict_invert(m.val), restored_text.val)
                 decoded_bytes == b64decode(replaced_text)
                 decoded       == IF decoded_bytes.exc # "" THEN decoded_bytes
                                  ELSE bytes_decode(decoded_bytes.val)
             IN  IF decoded.exc # "" THEN Ok(decode_error_text, m.py, g.np)
                 ELSE Ok(decoded.val, m.py, g.np)

\* text_processor.restore_text(confused_text, key, permutation, mode)
tp_restore_text(confused_text, key, permutation, mode, g) ==
    IF mode = "basic" THEN basic_text_restore(confused_text, key, permutation, g)
    ELSE IF mode = "advanced"
    THEN advanced_text_restore(confused_text, key, permutation, g)
    ELSE IF mode = "aes"
    THEN Ok(aes_decrypt(confused_text, key).val, g.py, g.np)
    ELSE Raise("ValueError", "unknown mode", g.py, g.np)

(***************************************************************************)
(* src/comfyui/scripts/confused_image.py                                   *)
(* A pixel array is [shape, data]: shape is <<h, w, c>> with data the h*w  *)
(* rows of c samples in row-major order (what reshape(-1, c) gives), or    *)
(* <<h, w>> with data the h*w samples of a single-channel array, each      *)
(* written as a row of one sample.                                         *)
(***************************************************************************)
RMask == 37
GMask == 117
BMask == 231

\* apply_confusion: r_key, g_key, b_key = (key + 37) % 256, (key + 117) % 256,
\* (key + 231) % 256.  Python's % takes the sign of the divisor, as TLA+'s.
apply_confusion_channel_keys(key) ==
    <<(key + RMask) % 256, (key + GMask) % 256, (key + BMask) % 256>>

\* Masks computed with a remainder that takes the sign of the dividend.
restore_image_channel_keys_truncating(key) ==
    [c \in 1..3 |->
        LET v == key + <<RMask, GMask, BMask>>[c]
        IN  IF v < 0 THEN -((-v) % 256) ELSE v % 256]

\* Masks that also depend on the key above its low eight bits.
restore_image_channel_keys_high_bits(key) ==
    <<(key + RMask + (key \div 256)) % 256, (key + GMask) % 256,
      (key + BMask) % 256>>

\* restore_image: the same three assignments
restore_image_channel_keys(key) ==
    <<(key + RMask) % 256, (key + GMask) % 256, (key + BMask) % 256>>

\* np.stack([pixels]*3, axis=-1) of a 2-D array
np_stack3(pixels) ==
    [shape |-> pixels.shape \o <<3>>,
     data  |-> [i \in 1..Len(pixels.data) |->
                    <<pixels.data[i][1], pixels.data[i][1], pixels.data[i][1]>>]]

\* A confusion that re-emits the channels in the order R, G, B.
img_apply_confusion_rgb_order(pixels, key, g) ==
    LET px == IF Len(pixels.shape) = 2 THEN np_stack3(pixels) ELSE pixels
    IN  IF ~np_seed_valid(key)
        THEN Raise(IF key.kind = "int" THEN "ValueError" ELSE "TypeError",
                   "np.random.seed", g.py, g.np)
        ELSE LET p        == np_random_permutation(Len(px.data), np_random_seed(key))
                 shuffled == np_take(px.data, p.x).val
             IN  Ok(<<[shape |-> px.shape,
                       data  |-> [i \in 1..Len(shuffled) |->
                                    <<BitXor(shuffled[i][1], (key.n + RMask) % 256),
                                      BitXor(shuffled[i][2], (key.n + GMask) % 256),
                                      BitXor(shuffled[i][3], (key.n + BMask) % 256)>>]],
                      p.x>>, g.py, p.st)

\* confused_image.apply_confusion(pixels, key)
img_apply_confusion(pixels, key, g) ==
    LET px == IF Len(pixels.shape) = 2 THEN np_stack3(pixels) ELSE pixels
        flattened == px.data
    IN  IF ~np_seed_valid(key)
        THEN Raise(IF key.kind = "int" THEN "ValueError" ELSE "TypeError",
                   "np.random.seed", g.py, g.np)
        ELSE LET p        == np_random_permutation(Len(flattened), np_random_seed(key))
                 shuffled == np_take(flattened, p.x).val
                 r_key    == apply_confusion_channel_keys(key.n)[1]
                 g_key    == apply_confusion_channel_keys(key.n)[2]
                 b_key    == apply_confusion_channel_keys(key.n)[3]
                 confused_pixels ==
                     [shape |-> px.shape,
                      data  |-> [i \in 1..Len(shuffled) |->
                                    <<BitXor(shuffled[i][2], g_key),
                                      BitXor(shuffled[i][3], b_key),
                                      BitXor(shuffled[i][1], r_key)>>]]
             IN  Ok(<<confused_pixels, p.x>>, g.py, p.st)

\* confused_image.restore_image(pixels, key, permutation)
restore_image(pixels, key, permutation, g) ==
    IF Len(pixels.shape) # 3 THEN Raise("IndexError", "channels", g.py, g.np)
    ELSE IF key.kind # "int" THEN Raise("TypeError", "key + 37", g.py, g.np)
    ELSE
    LET r_key == restore_image_channel_keys(key.n)[1]
        g_key == restore_image_channel_keys(key.n)[2]
        b_key == restore_image_channel_keys(key.n)[3]
        flattened == [i \in 1..Len(pixels.data) |->
                         <<BitXor(pixels.data[i][3], r_key),
                           BitXor(pixels.data[i][1], g_key),
                           BitXor(pixels.data[i][2], b_key)>>]
        restored_flat == np_take(flattened, np_argsort(permutation))
    IN  IF restored_flat.exc # "" THEN Raise("IndexError", "index", g.py, g.np)
        ELSE IF Len(restored_flat.val) # Len(flattened)
        THEN Raise("ValueError", "reshape", g.py, g.np)
        ELSE Ok([shape |-> pixels.shape, data |-> restored_flat.val], g.py, g.np)

(***************************************************************************)
(* The callers: one obfuscation call followed by one restoration call on   *)
(* its output, as process_file / process_image make them, with the         *)
(* arguments of the restoration either the faithful ones or differing from *)
(* them in one place (key, mode, permutation length, payload).             *)
(***************************************************************************)
MaxPixels == 2

TextChars == {97, 233, 0}      \* 'a', U+00E9, NUL
Hello == <<72, 101, 108, 108, 111, 44, 32, 87, 111, 114, 108, 100, 33>>
Texts == UNION {[1..n -> TextChars] : n \in 0..MaxLen} \cup {Hello}

Keys == {IntKey(1), IntKey(2), IntKey(-1),
         StrKey(<<115, 101, 101, 100, 49>>), StrKey(<<112, 119>>)}
Modes == {"basic", "advanced", "aes", "rot13"}

Samples == {0, 255}
Scenario == [shape |-> <<2, 2, 3>>,
             data  |-> <<<<1, 2, 3>>, <<4, 5, 6>>, <<7, 8, 9>>, <<255, 0, 128>>>>]
Shapes == {<<h, w>> \in (1..MaxPixels) \X (1..MaxPixels) : h * w <= MaxPixels}
Images ==
    {[shape |-> sh \o <<3>>, data |-> d] :
        sh \in Shapes, d \in UNION {[1..n -> [1..3 -> Samples]] : n \in 1..MaxPixels}}
    \cup {[shape |-> sh, data |-> d] :
        sh \in Shapes, d \in UNION {[1..n -> [1..1 -> Samples]] : n \in 1..MaxPixels}}
    \cup {Scenario}
WellFormed(img) == Len(img.data) = img.shape[1] * img.shape[2]
ImageKeys == {IntKey(42), IntKey(43), IntKey(298), IntKey(-1)}

NoPixels == [shape |-> <<>>, data |-> <<>>]
NoCall == [text |-> <<>>, pixels |-> NoPixels, key |-> IntKey(0),
           metadata |-> <<>>, mode |-> ""]
NoResult == [exc |-> "none", why |-> "", val |-> <<>>, py |-> 0, np |-> 0]

VARIABLES
    py,       \* state of the module-level generator of random
    np,       \* state of the module-level generator of numpy.random
    call,     \* the obfuscation call: impl, text, pixels, key, mode, salt, iv
    phase,    \* "call", "confused", "restored"
    fwd,      \* outcome of the obfuscation call
    rcall,    \* arguments of the restoration call
    rst,      \* outcome of the restoration call
    thr       \* the interleaved calls (see SpecConc)

vars == <<py, np, call, phase, fwd, rcall, rst, thr>>

NoThreads == <<>>

Init ==
    /\ py = 0
    /\ np = 0
    /\ \/ \E i \in {"confused_text", "text_processor"}, t \in Texts,
             k \in Keys, m \in Modes :
             call = [impl |-> i, text |-> t, pixels |-> NoPixels, key |-> k,
                     mode |-> m]
       \/ \E img \in {x \in Images : WellFormed(x)}, k \in ImageKeys :
             call = [impl |-> "confused_image", text |-> <<>>, pixels |-> img,
                     key |-> k, mode |-> "image"]
    /\ phase = "call"
    /\ fwd = NoResult
    /\ rcall = NoCall
    /\ rst = NoResult
    /\ thr = NoThreads

\* One character of the payload replaced by '#'.
Corrupted(text) == IF text = <<>> THEN {} ELSE {[text EXCEPT ![1] = 35]}
\* A permutation sidecar one entry short, or one entry long.
Mismatched(p) ==
    (IF p = <<>> THEN {} ELSE {SubSeq(p, 1, Len(p) - 1)}) \cup {p \o <<Len(p)>>}

Finish(out) ==
    /\ phase' = "confused"
    /\ fwd' = out
    /\ py' = out.py
    /\ np' = out.np
    /\ UNCHANGED <<call, rcall, rst, thr>>

Restore(args, out) ==
    /\ phase' = "restored"
    /\ rcall' = args
    /\ rst' = out
    /\ py' = out.py
    /\ np' = out.np
    /\ UNCHANGED <<call, fwd, thr>>

\* confused_text.apply_confusion(text, key, mode)
CtApplyConfusion ==
    /\ phase = "call"
    /\ call.impl = "confused_text"
    /\ Finish(ct_apply_confusion(call.text, call.key, call.mode, Globals(py, np)))

\* The restoration call with the output and the arguments of the forward call.
CtFaithfulCall ==
    [text |-> fwd.val[1], pixels |-> NoPixels, key |-> call.key,
     metadata |-> fwd.val[2], mode |-> call.mode]

\* The restoration calls a caller can make on the output of confused_text.
CtRestoreCalls ==
    LET base == CtFaithfulCall
    IN  {base}
        \cup {[base EXCEPT !.key = k] : k \in Keys \ {call.key}}
        \cup {[base EXCEPT !.mode = m] : m \in Modes \ {call.mode}}
        \cup {[base EXCEPT !.text = t] : t \in Corrupted(base.text)}
        \cup {[base EXCEPT !.metadata.permutation_key = q] :
                 q \in Mismatched(base.metadata.permutation_key)}

\* confused_text.restore_text(confused_text, key, metadata, mode)
CtRestoreText ==
    /\ phase = "confused"
    /\ call.impl = "confused_text"
    /\ fwd.exc = ""
    /\ \E a \in CtRestoreCalls :
          Restore(a, ct_restore_text(a.text, a.key, a.metadata, a.mode,
                                     Globals(py, np)))

\* text_processor.apply_text_confusion(text, key, mode); salt and iv are what
\* os.urandom returns inside aes_encrypt.
TpApplyTextConfusion ==
    /\ phase = "call"
    /\ call.impl = "text_processor"
    /\ IF call.mode = "aes"
       THEN \E salt \in urandom(SaltLen), iv \in urandom(AesBlockSize) :
               Finish(tp_apply_text_confusion(call.text, call.key, call.mode,
                                              salt, iv, Globals(py, np)))
       ELSE \E salt \in {<<>>} :
               Finish(tp_apply_text_confusion(call.text, call.key, call.mode,
                                              salt, salt, Globals(py, np)))

TpFaithfulCall ==
    [text |-> fwd.val[1], pixels |-> NoPixels, key |-> call.key,
     metadata |-> [permutation |-> IF call.mode = "aes" THEN <<>> ELSE fwd.val[2]],
     mode |-> call.mode]

\* The restoration calls a caller can make on the output of text_processor.
\* A call in mode basic or advanced carries the permutation of the forward call.
TpRestoreCalls ==
    LET base == TpFaithfulCall
        perm == base.metadata.permutation
    IN  {base}
        \cup {[base EXCEPT !.key = k] : k \in Keys \ {call.key}}
        \cup {[base EXCEPT !.mode = m] :
                 m \in (IF call.mode = "aes" THEN {"rot13"} ELSE Modes) \ {call.mode}}
        \cup {[base EXCEPT !.text = t] : t \in Corrupted(base.text)}
        \cup (IF call.mode = "aes" THEN {}
              ELSE {[base EXCEPT !.metadata.permutation = q] : q \in Mismatched(perm)})

\* text_processor.restore_text(confused_text, key, permutation, mode)
TpRestoreText ==
    /\ phase = "confused"
    /\ call.impl = "text_processor"
    /\ fwd.exc = ""
    /\ \E a \in TpRestoreCalls :
          Restore(a, tp_restore_text(a.text, a.key, a.metadata.permutation,
                                     a.mode, Globals(py, np)))

\* confused_image.apply_confusion(pixels, key)
ImgApplyConfusion ==
    /\ phase = "call"
    /\ call.impl = "confused_image"
    /\ Finish(img_apply_confusion(call.pixels, call.key, Globals(py, np)))

ImgFaithfulCall ==
    [text |-> <<>>, pixels |-> fwd.val[1], key |-> call.key,
     metadata |-> [permutation |-> fwd.val[2]], mode |-> call.mode]

ImgRestoreCalls ==
    LET base == ImgFaithfulCall
    IN  {base}
        \cup {[base EXCEPT !.key = k] : k \in ImageKeys \ {call.key}}
        \cup {[base EXCEPT !.metadata.permutation = q] :
                 q \in Mismatched(fwd.val[2])}

\* confused_image.restore_image(pixels, key, permutation)
RestoreImage ==
    /\ phase = "confused"
    /\ call.impl = "confused_image"
    /\ fwd.exc = ""
    /\ \E a \in ImgRestoreCalls :
          Restore(a, restore_image(a.pixels, a.key, a.metadata.permutation,
                                   Globals(py, np)))

Next ==
    \/ CtApplyConfusion
    \/ CtRestoreText
    \/ TpApplyTextConfusion
    \/ TpRestoreText
    \/ ImgApplyConfusion
    \/ RestoreImage

Spec == Init /\ [][Next]_vars

(***************************************************************************)
(* Two obfuscation calls running in two threads of one interpreter.  Each  *)
(* call is the sequence of its calls on the module-level generators; a     *)
(* thread switch can fall between any two of them.                         *)
(***************************************************************************)
ThreadOps == {"generate_permutation_key", "apply_character_substitution",
              "basic_text_confusion", "apply_confusion"}
ThreadKeys == {IntKey(1), IntKey(2)}

\* The generator calls each function makes, in program order.
Program(op) ==
    IF op = "generate_permutation_key" THEN <<"random.seed", "random.sample">>
    ELSE IF op = "apply_character_substitution"
    THEN <<"random.seed", "random.shuffle">>
    ELSE IF op = "basic_text_confusion"
    THEN <<"random.seed", "random.shuffle", "np.random.seed", "np.random.permutation">>
    ELSE IF op = "aes_encrypt" THEN <<"derive_key", "generate_iv">>
    ELSE <<"np.random.seed", "np.random.permutation">>

\* The alphabet apply_character_substitution and basic_text_confusion shuffle.
ThreadChars == ascii_letters \o digits \o punctuation \o <<32>>

Thread(op, key, n) ==
    [op |-> op, key |-> key, n |-> n, pc |-> 1, permutation |-> <<>>,
     shuffled |-> <<>>, salt |-> <<>>, iv |-> <<>>]

InitConc ==
    /\ py = 0
    /\ np = 0
    /\ call = NoCall
    /\ phase = "threads"
    /\ fwd = NoResult
    /\ rcall = NoCall
    /\ rst = NoResult
    /\ \E o1 \in ThreadOps, o2 \in ThreadOps, k1 \in ThreadKeys, k2 \in ThreadKeys,
          n \in 2..MaxLen :
          /\ k1 # k2
          /\ thr = <<Thread(o1, k1, n), Thread(o2, k2, n)>>

AtStep(t, step) ==
    /\ phase = "threads"
    /\ thr[t].pc <= Len(Program(thr[t].op))
    /\ Program(thr[t].op)[thr[t].pc] = step

Done(t) == phase = "threads" /\ thr[t].pc > Len(Program(thr[t].op))

\* random.seed(key)
RandomSeed(t) ==
    /\ AtStep(t, "random.seed")
    /\ py' = random_seed(thr[t].key)
    /\ thr' = [thr EXCEPT ![t].pc = @ + 1]
    /\ UNCHANGED <<np, call, phase, fwd, rcall, rst>>

\* random.sample(range(length), length)
RandomSample(t) ==
    /\ AtStep(t, "random.sample")
    /\ LET s == random_sample(Range(0, thr[t].n - 1), py)
       IN  /\ py' = s.st
           /\ thr' = [thr EXCEPT ![t].pc = @ + 1, ![t].permutation = s.x]
    /\ UNCHANGED <<np, call, phase, fwd, rcall, rst>>

\* random.shuffle(shuffled)
RandomShuffle(t) ==
    /\ AtStep(t, "random.shuffle")
    /\ LET s == random_shuffle(ThreadChars, py)
       IN  /\ py' = s.st
           /\ thr' = [thr EXCEPT ![t].pc = @ + 1, ![t].shuffled = s.x]
    /\ UNCHANGED <<np, call, phase, fwd, rcall, rst>>

\* np.random.seed(key)
NpRandomSeed(t) ==
    /\ AtStep(t, "np.random.seed")
    /\ np' = np_random_seed(thr[t].key)
    /\ thr' = [thr EXCEPT ![t].pc = @ + 1]
    /\ UNCHANGED <<py, call, phase, fwd, rcall, rst>>

\* np.random.permutation(n)
NpRandomPermutation(t) ==
    /\ AtStep(t, "np.random.permutation")
    /\ LET s == np_random_permutation(thr[t].n, np)
       IN  /\ np' = s.st
           /\ thr' = [thr EXCEPT ![t].pc = @ + 1, ![t].permutation = s.x]
    /\ UNCHANGED <<py, call, phase, fwd, rcall, rst>>

NextConc ==
    \/ \E t \in 1..2 : RandomSeed(t)
    \/ \E t \in 1..2 : RandomSample(t)
    \/ \E t \in 1..2 : RandomShuffle(t)
    \/ \E t \in 1..2 : NpRandomSeed(t)
    \/ \E t \in 1..2 : NpRandomPermutation(t)

SpecConc == InitConc /\ [][NextConc]_vars

\* What the call of thread t obtains when it runs alone with its key.
AloneShuffled(t) ==
    IF thr[t].op \in {"apply_character_substitution", "basic_text_confusion"}
    THEN random_shuffle(ThreadChars, random_seed(thr[t].key)).x
    ELSE <<>>

AlonePermutation(t) ==
    IF thr[t].op = "generate_permutation_key"
    THEN generate_permutation_key(thr[t].n, thr[t].key).val
    ELSE IF thr[t].op \in {"apply_character_substitution", "aes_encrypt"} THEN <<>>
    ELSE np_random_permutation(thr[t].n, np_random_seed(thr[t].key)).x

(***************************************************************************)
(* Properties                                                              *)
(***************************************************************************)
Called(i) == phase # "call" /\ call.impl = i
Restored(i) == phase = "restored" /\ call.impl = i
TextImpls == {"confused_text", "text_processor"}
PermutationModes == {"basic", "advanced"}

\* The permutation handed to the restoration call, and the one the forward
\* call produced.
PassedPermutation ==
    IF call.impl = "confused_text" THEN rcall.metadata.permutation_key
    ELSE rcall.metadata.permutation

ForwardPermutation ==
    IF call.impl = "confused_text" THEN fwd.val[2].permutation_key ELSE fwd.val[2]

\* The restoration call differs from the faithful one in the key alone, or in
\* the payload alone.
OnlyKeyDiffers(faithful) ==
    rcall.key # call.key /\ rcall = [faithful EXCEPT !.key = rcall.key]

OnlyTextDiffers(faithful) ==
    rcall.text # faithful.text /\ rcall = [faithful EXCEPT !.text = rcall.text]

C2_RoundTrip ==
    (Restored("text_processor") /\ rcall = TpFaithfulCall)
        => (rst.exc = "" /\ rst.val = call.text)

\* The round trip of a text holding U+0000 in mode basic ends in an IndexError.
C2_Witness ==
    /\ Restored("text_processor")
    /\ rcall = TpFaithfulCall
    /\ call.mode = "basic"
    /\ call.text = <<97, 0>>
    /\ Len(fwd.val[1]) = 1
    /\ Len(fwd.val[2]) = 2
    /\ rst.exc = "IndexError"

C4_TypedError ==
    (/\ Restored("text_processor")
     /\ rcall.mode \in {"aes", "advanced"}
     /\ OnlyKeyDiffers(TpFaithfulCall) \/ OnlyTextDiffers(TpFaithfulCall)
     /\ rst.val # call.text)
        => rst.exc # ""

\* aes_decrypt with another password returns its error message as the text.
C4_Witness ==
    /\ Restored("text_processor")
    /\ rcall.mode = "aes"
    /\ OnlyKeyDiffers(TpFaithfulCall)
    /\ rcall.key.kind = "str"
    /\ rst.exc = ""
    /\ rst.val = decrypt_error_text("ValueError")

\* C5: text restoration in mode basic or advanced with a permutation whose
\* length differs from the length of the text it un-permutes fails with an
\* error, in confused_text.py and in text_processor.py; it never returns a
\* string.
C5_LengthMismatchFails ==
    (/\ phase = "restored"
     /\ call.impl \in TextImpls
     /\ rcall.mode \in PermutationModes
     /\ rcall.mode = call.mode
     /\ rcall.text = fwd.val[1]
     /\ rcall.key = call.key
     /\ Len(PassedPermutation) # Len(ForwardPermutation))
        => rst.exc # ""

\* A permutation one entry short gives back a text one character short.
C5_Witness ==
    /\ Restored("confused_text")
    /\ rcall.mode = "basic"
    /\ rcall.mode = call.mode
    /\ rcall.text = fwd.val[1]
    /\ Len(call.text) = MaxLen
    /\ Len(PassedPermutation) = Len(ForwardPermutation) - 1
    /\ rst.exc = ""
    /\ Len(rst.val) = Len(call.text) - 1

\* C6: restore_image with a permutation whose length is not rows*cols of the
\* pixel buffer fails with a DimensionMismatchError; it never returns a pixel
\* array.
C6_DimensionMismatchError ==
    (/\ Restored("confused_image")
     /\ Len(PassedPermutation) # rcall.pixels.shape[1] * rcall.pixels.shape[2])
        => rst.exc = "DimensionMismatchError"

\* The errors that do come out are numpy's own.
C6_Witness ==
    /\ Restored("confused_image")
    /\ rcall.pixels = fwd.val[1]
    /\ Len(PassedPermutation) < rcall.pixels.shape[1] * rcall.pixels.shape[2]
    /\ rst.exc = "ValueError"
    /\ rst.why = "reshape"

\* C7: restoring with a key other than the key of the obfuscation call, all
\* other inputs and metadata unchanged, yields an error and never a payload:
\* restore_text of both text implementations in every mode, and restore_image.
C7_WrongKeyTypedError ==
    (/\ phase = "restored"
     /\ OnlyKeyDiffers(IF call.impl = "confused_text" THEN CtFaithfulCall
                       ELSE IF call.impl = "text_processor" THEN TpFaithfulCall
                       ELSE ImgFaithfulCall))
        => rst.exc # ""

\* confused_text.restore_text returns the original text under another key.
C7_Witness ==
    /\ Restored("confused_text")
    /\ OnlyKeyDiffers(CtFaithfulCall)
    /\ call.mode = "advanced"
    /\ call.text = <<97, 233, 0>>
    /\ rst.exc = ""
    /\ rst.val = call.text

\* C8: two obfuscation calls with different keys whose generator calls
\* interleave do not interfere: each obtains the permutation and the
\* substitution map it obtains when it runs alone with its key.
C8_NoInterference ==
    \A t \in 1..2 :
        Done(t) => /\ thr[t].permutation = AlonePermutation(t)
                   /\ thr[t].shuffled = AloneShuffled(t)

\* Both calls have returned and the first holds a permutation that is not the
\* one of its key.
C8_Witness ==
    /\ Done(1)
    /\ Done(2)
    /\ thr[1].op = "generate_permutation_key"
    /\ thr[1].permutation # AlonePermutation(1)

\* The mode names each implementation accepts.
AcceptedModes(i) ==
    IF i = "confused_text" THEN {"basic", "advanced"} ELSE {"basic", "advanced", "aes"}

UnknownMode(out, py0, np0) ==
    /\ out.exc = "ValueError"
    /\ out.why = "unknown mode"
    /\ out.val = <<>>
    /\ out.py = py0
    /\ out.np = np0

\* The entry points of implementation i accept exactly the mode names in
\* accepted: any other name raises ValueError with the generators untouched
\* and nothing returned, and no accepted name does.
ModesAccepted(i, accepted) ==
    /\ Called(i) => (call.mode \notin accepted <=> UnknownMode(fwd, 0, 0))
    /\ Restored(i) => (rcall.mode \notin accepted <=> UnknownMode(rst, fwd.py, fwd.np))

\* C9 (as amended): apply_confusion/restore_text of confused_text.py accept
\* exactly basic and advanced, apply_text_confusion/restore_text of
\* text_processor.py accept exactly basic, advanced and aes; for any other
\* mode name they raise ValueError before transforming anything and return no
\* payload or metadata.
C9_ModesAccepted ==
    /\ ModesAccepted("confused_text", AcceptedModes("confused_text"))
    /\ ModesAccepted("text_processor", AcceptedModes("text_processor"))

C9_Witness ==
    /\ Restored("confused_text")
    /\ call.mode = "basic"
    /\ call.text = <<97, 233, 0>>
    /\ rcall.mode = "aes"
    /\ fwd.exc = ""
    /\ UnknownMode(rst, fwd.py, fwd.np)

\* C9 (as stated): the text entry points of both implementations accept
\* exactly basic, advanced and aes.
C9_AsStated ==
    /\ ModesAccepted("confused_text", {"basic", "advanced", "aes"})
    /\ ModesAccepted("text_processor", {"basic", "advanced", "aes"})

\* C10: a key given as a text string is accepted by modes basic and advanced
\* of confused_text.py and text_processor.py: obfuscation completes without
\* error and restoration returns the original.
C10_StringKeys ==
    (call.impl \in TextImpls /\ call.key.kind = "str"
        /\ call.mode \in PermutationModes)
        => /\ phase # "call" => fwd.exc = ""
           /\ (phase = "restored"
                 /\ rcall = (IF call.impl = "confused_text" THEN CtFaithfulCall
                             ELSE TpFaithfulCall))
                 => (rst.exc = "" /\ rst.val = call.text)

\* "Hello, World!" with key "seed1": text_processor's basic mode raises at
\* np.random.seed.
C10_Witness ==
    /\ Called("text_processor")
    /\ call.text = Hello
    /\ call.mode = "basic"
    /\ call.key = StrKey(<<115, 101, 101, 100, 49>>)
    /\ fwd.exc = "TypeError"
    /\ fwd.why = "np.random.seed"

(***************************************************************************)
(* Calls made one after another in one process, as the loops of            *)
(* process_directory make them: a call starts when the one before it has   *)
(* returned, and finds the generators as that call left them.              *)
(***************************************************************************)
MaxCalls == 3

Password == StrKey(<<112, 119>>)

SeqOps == {"generate_permutation_key", "basic_text_confusion"}

\* The passwords of the aes_encrypt calls.
Passwords == {Password, StrKey(<<115, 101, 101, 100, 49>>)}

SeqCalls(n) ==
    {Thread(o, k, n) : o \in SeqOps, k \in ThreadKeys}
        \cup {Thread("aes_encrypt", p, n) : p \in Passwords}

InitSeq ==
    /\ py = 0
    /\ np = 0
    /\ call = NoCall
    /\ phase = "threads"
    /\ fwd = NoResult
    /\ rcall = NoCall
    /\ rst = NoResult
    /\ \E n \in 2..MaxLen : thr \in [1..MaxCalls -> SeqCalls(n)]

\* Call t runs when every call before it has returned.
Turn(t) == \A u \in 1..(t - 1) : Done(u)

\* A derive_key that takes its salt from the seeded generator of random:
\* salt = random.getrandbits(128).to_bytes(16, 'big')
DeriveKeySalt_seeded(t) ==
    /\ AtStep(t, "derive_key")
    /\ thr' = [thr EXCEPT ![t].pc = @ + 1,
                          ![t].salt = [i \in 1..SaltLen |-> (MTNext(py) + i) % 256]]
    /\ py' = MTNext(py)
    /\ UNCHANGED <<np, call, phase, fwd, rcall, rst>>

\* salt = os.urandom(16) in derive_key
DeriveKeySalt(t) ==
    /\ AtStep(t, "derive_key")
    /\ \E salt \in urandom(SaltLen) :
          thr' = [thr EXCEPT ![t].pc = @ + 1, ![t].salt = salt]
    /\ UNCHANGED <<py, np, call, phase, fwd, rcall, rst>>

\* os.urandom(AES.block_size) in generate_iv
GenerateIv(t) ==
    /\ AtStep(t, "generate_iv")
    /\ \E iv \in urandom(AesBlockSize) :
          thr' = [thr EXCEPT ![t].pc = @ + 1, ![t].iv = iv]
    /\ UNCHANGED <<py, np, call, phase, fwd, rcall, rst>>

NextSeq ==
    \/ \E t \in 1..MaxCalls : Turn(t) /\ RandomSeed(t)
    \/ \E t \in 1..MaxCalls : Turn(t) /\ RandomSample(t)
    \/ \E t \in 1..MaxCalls : Turn(t) /\ RandomShuffle(t)
    \/ \E t \in 1..MaxCalls : Turn(t) /\ NpRandomSeed(t)
    \/ \E t \in 1..MaxCalls : Turn(t) /\ NpRandomPermutation(t)
    \/ \E t \in 1..MaxCalls : Turn(t) /\ DeriveKeySalt(t)
    \/ \E t \in 1..MaxCalls : Turn(t) /\ GenerateIv(t)

SpecSeq == InitSeq /\ [][NextSeq]_vars

\* C11, first half: a call of generate_permutation_key (or of
\* basic_text_confusion) that runs after other calls, which seeded the
\* generators with their own keys, obtains the list it obtains on its own.
SeqCallsDeterministic ==
    \A t \in 1..MaxCalls :
        Done(t) => /\ thr[t].permutation = AlonePermutation(t)
                   /\ thr[t].shuffled = AloneShuffled(t)

SeqCallsWitness ==
    /\ Done(2)
    /\ thr[1].op = "generate_permutation_key"
    /\ thr[2].op = "generate_permutation_key"
    /\ thr[1].key # thr[2].key
    /\ thr[1].n = MaxLen
    /\ thr[2].permutation = AlonePermutation(2)

\* C11: generate_permutation_key(N, seed) returns the same list whatever was
\* drawn before it (SeqCallsDeterministic), and the permutation that
\* basic_text_restore draws again from (text length, key) equals the
\* permutation the forward call produced and stored.
C11_RegeneratedPermutation ==
    (/\ Restored("text_processor")
     /\ rcall.mode = "basic"
     /\ rcall = TpFaithfulCall)
        => original_permutation(rcall.text, rcall.key).x = fwd.val[2]

\* For a text holding U+0000 the permutation drawn again is shorter than the
\* stored one.
C11_Witness ==
    /\ Restored("text_processor")
    /\ rcall.mode = "basic"
    /\ rcall = TpFaithfulCall
    /\ call.text = <<97, 0>>
    /\ Len(original_permutation(rcall.text, rcall.key).x) = 1
    /\ Len(fwd.val[2]) = 2

\* The alphabet of the substitution maps, as a set.
Alphabet == SeqSet(ascii_letters \o digits \o punctuation \o <<32>>)

\* m is a bijection on the set A: its key set and its value set are A, and
\* no two keys share a value (there are as many values as keys).
BijectionOn(m, A) ==
    /\ DOMAIN m = A
    /\ {m[c] : c \in DOMAIN m} = A
    /\ Cardinality({m[c] : c \in DOMAIN m}) = Cardinality(DOMAIN m)

\* C12: for every seed, the character map built by
\* apply_character_substitution (and by basic_text_confusion) is a bijection
\* on the alphabet of letters, digits, punctuation and space.
C12_Bijection ==
    /\ (phase = "call" /\ call.impl = "confused_text")
          => BijectionOn(apply_character_substitution(call.text, call.key).val[2],
                         Alphabet)
    /\ (Called("confused_text") /\ call.mode = "advanced" /\ fwd.exc = "")
          => BijectionOn(fwd.val[2].char_map, Alphabet)
    /\ (phase = "call" /\ call.impl = "text_processor")
          => BijectionOn(tp_char_map(ascii_letters \o digits \o punctuation \o <<32>>,
                                     call.key).val,
                         Alphabet)

\* The map of an advanced call moves 'a' and is a bijection.
C12_Witness ==
    /\ Called("confused_text")
    /\ call.mode = "advanced"
    /\ fwd.exc = ""
    /\ fwd.val[2].char_map[97] # 97
    /\ Cardinality(DOMAIN fwd.val[2].char_map) = 95
    /\ BijectionOn(fwd.val[2].char_map, Alphabet)

(***************************************************************************)
(* The advanced mode of confused_text.py statement by statement:           *)
(* apply_confusion(text, key, 'advanced'), then restore_text on its output *)
(* (or on a corrupted copy of it) with the metadata it returned.  thr      *)
(* holds the one call in progress: its position, its locals and the        *)
(* statements it has completed.                                            *)
(***************************************************************************)
\* The statements of the advanced branch of apply_confusion, in program order.
ForwardOrder ==
    <<"apply_character_substitution", "apply_position_permutation",
      "apply_compression">>

\* A restoration that inverts the permutation before it decompresses.
RestoreOrder_permutation_first ==
    <<"reverse_position_permutation", "reverse_compression",
      "reverse_character_substitution">>

\* The statements of the advanced branch of restore_text, in program order.
RestoreOrder ==
    <<"reverse_compression", "reverse_position_permutation",
      "reverse_character_substitution">>

\* A position permutation seeded with the key of the substitution.
AdvancedSeed_same(key) == key

\* key + 1, the seed of the position permutation in advanced mode
AdvancedSeed(key) == IntKey(key.n + 1)

Frame(text, key) ==
    [fn |-> "apply_confusion", text |-> text, key |-> key, pc |-> 1, exc |-> "",
     cur |-> text, done |-> <<>>, rdone |-> <<>>,
     substituted_text |-> <<>>, char_map |-> <<>>, permuted_text |-> <<>>,
     permutation_key |-> <<>>, compressed_text |-> <<>>, metadata |-> <<>>,
     confused_text |-> <<>>, decompressed_text |-> <<>>,
     restored_permuted |-> <<>>, restored |-> <<>>]

InitSteps ==
    /\ py = 0
    /\ np = 0
    /\ call = NoCall
    /\ phase = "steps"
    /\ fwd = NoResult
    /\ rcall = NoCall
    /\ rst = NoResult
    /\ \E text \in Texts, key \in Keys : thr = <<Frame(text, key)>>

\* The call is about to execute the statement named step.
AtStatement(fn, order, step) ==
    /\ phase = "steps"
    /\ thr[1].fn = fn
    /\ thr[1].exc = ""
    /\ thr[1].pc <= Len(order)
    /\ order[thr[1].pc] = step

\* substituted_text, char_map = apply_character_substitution(text, key)
AdvSubstitute ==
    /\ AtStatement("apply_confusion", ForwardOrder, "apply_character_substitution")
    /\ LET f == thr[1]
           s == apply_character_substitution(f.cur, f.key)
       IN  /\ thr' = <<[f EXCEPT !.pc = @ + 1, !.cur = s.val[1],
                                 !.substituted_text = s.val[1],
                                 !.char_map = s.val[2],
                                 !.done = Append(@, "apply_character_substitution")]>>
           /\ py' = s.py
    /\ UNCHANGED <<np, call, phase, fwd, rcall, rst>>

\* permuted_text, permutation_key = apply_position_permutation(substituted_text, key + 1)
AdvPermute ==
    /\ AtStatement("apply_confusion", ForwardOrder, "apply_position_permutation")
    /\ LET f == thr[1]
       IN  IF f.key.kind # "int"
           THEN /\ thr' = <<[f EXCEPT !.exc = "TypeError"]>>
                /\ py' = py
           ELSE LET p == apply_position_permutation(f.cur, AdvancedSeed(f.key))
                IN  /\ thr' = <<[f EXCEPT !.pc = @ + 1, !.cur = p.val[1],
                                          !.permuted_text = p.val[1],
                                          !.permutation_key = p.val[2],
                                          !.done = Append(@, "apply_position_permutation")]>>
                    /\ py' = p.py
    /\ UNCHANGED <<np, call, phase, fwd, rcall, rst>>

\* compressed_text = apply_compression(permuted_text)
AdvCompress ==
    /\ AtStatement("apply_confusion", ForwardOrder, "apply_compression")
    /\ LET f == thr[1]
           c == apply_compression(f.cur)
       IN  thr' = IF c.exc # "" THEN <<[f EXCEPT !.exc = c.exc]>>
                  ELSE <<[f EXCEPT !.pc = @ + 1, !.cur = c.val,
                                   !.compressed_text = c.val,
                                   !.done = Append(@, "apply_compression")]>>
    /\ UNCHANGED <<py, np, call, phase, fwd, rcall, rst>>

\* return compressed_text, {'char_map': char_map, 'permutation_key': permutation_key}
AdvReturn ==
    /\ phase = "steps"
    /\ thr[1].fn = "apply_confusion"
    /\ thr[1].exc = ""
    /\ thr[1].pc = Len(ForwardOrder) + 1
    /\ thr' = <<[thr[1] EXCEPT !.pc = @ + 1,
                               !.metadata = [char_map |-> thr[1].char_map,
                                             permutation_key |-> thr[1].permutation_key]]>>
    /\ UNCHANGED <<py, np, call, phase, fwd, rcall, rst>>

Returned(fn) ==
    /\ phase = "steps"
    /\ thr[1].fn = fn
    /\ thr[1].exc = ""
    /\ thr[1].pc = (IF fn = "apply_confusion" THEN Len(ForwardOrder) + 2
                    ELSE Len(RestoreOrder) + 1)

\* The caller passes the output, or a corrupted copy of it, to
\* restore_text(confused_text, key, metadata, 'advanced').
RestoreTextCall ==
    /\ Returned("apply_confusion")
    /\ \E c \in {thr[1].compressed_text} \cup Corrupted(thr[1].compressed_text) :
          thr' = <<[thr[1] EXCEPT !.fn = "restore_text", !.pc = 1,
                                  !.confused_text = c, !.cur = c]>>
    /\ UNCHANGED <<py, np, call, phase, fwd, rcall, rst>>

\* decompressed_text = reverse_compression(confused_text)
RstDecompress ==
    /\ AtStatement("restore_text", RestoreOrder, "reverse_compression")
    /\ LET f == thr[1]
           d == reverse_compression(f.cur)
       IN  thr' = IF d.exc # "" THEN <<[f EXCEPT !.exc = d.exc]>>
                  ELSE <<[f EXCEPT !.pc = @ + 1, !.cur = d.val,
                                   !.decompressed_text = d.val,
                                   !.rdone = Append(@, "reverse_compression")]>>
    /\ UNCHANGED <<py, np, call, phase, fwd, rcall, rst>>

\* restored_permuted = reverse_position_permutation(decompressed_text,
\*                                                  metadata['permutation_key'])
RstUnpermute ==
    /\ AtStatement("restore_text", RestoreOrder, "reverse_position_permutation")
    /\ LET f == thr[1]
           r == reverse_position_permutation(f.cur, f.metadata.permutation_key)
       IN  thr' = IF r.exc # "" THEN <<[f EXCEPT !.exc = r.exc]>>
                  ELSE <<[f EXCEPT !.pc = @ + 1, !.cur = r.val,
                                   !.restored_permuted = r.val,
                                   !.rdone = Append(@, "reverse_position_permutation")]>>
    /\ UNCHANGED <<py, np, call, phase, fwd, rcall, rst>>

\* return reverse_character_substitution(restored_permuted, metadata['char_map'])
RstUnsubstitute ==
    /\ AtStatement("restore_text", RestoreOrder, "reverse_character_substitution")
    /\ LET f == thr[1]
           r == reverse_character_substitution(f.cur, f.metadata.char_map)
       IN  thr' = <<[f EXCEPT !.pc = @ + 1, !.cur = r, !.restored = r,
                              !.rdone = Append(@, "reverse_character_substitution")]>>
    /\ UNCHANGED <<py, np, call, phase, fwd, rcall, rst>>

NextSteps ==
    \/ AdvSubstitute
    \/ AdvPermute
    \/ AdvCompress
    \/ AdvReturn
    \/ RestoreTextCall
    \/ RstDecompress
    \/ RstUnpermute
    \/ RstUnsubstitute

SpecSteps == InitSteps /\ [][NextSteps]_vars

\* The call has completed the statement named step of apply_confusion.
Completed(step) ==
    /\ phase = "steps"
    /\ \E i \in 1..Len(thr[1].done) : thr[1].done[i] = step

\* C13: for every text and seed, with (S, char_map) =
\* apply_character_substitution(text, seed): reverse_character_substitution(S,
\* char_map) is text, S has the length of text, and every character outside the
\* alphabet is unchanged at its position in S.
C13_SubstitutionRoundTrip ==
    Completed("apply_character_substitution") =>
        LET f == thr[1]
        IN  /\ Len(f.substituted_text) = Len(f.text)
            /\ \A i \in 1..Len(f.text) :
                  f.text[i] \notin Alphabet => f.substituted_text[i] = f.text[i]
            /\ reverse_character_substitution(f.substituted_text, f.char_map) = f.text

C13_Witness ==
    /\ Completed("apply_character_substitution")
    /\ thr[1].text = <<97, 233, 97>>
    /\ thr[1].substituted_text # thr[1].text
    /\ thr[1].substituted_text[2] = 233
    /\ reverse_character_substitution(thr[1].substituted_text, thr[1].char_map) = thr[1].text

\* C14: every obfuscation or restoration call leaves the process-wide seeded
\* generators (Python's random and numpy's np.random) in the state it found
\* them in.
C14_GeneratorsUntouched == [][py' = py /\ np' = np]_vars

\* An obfuscation call has returned and Python's generator is no longer in the
\* state the call found it in.
C14_Witness ==
    /\ Called("confused_text")
    /\ call.mode = "basic"
    /\ fwd.exc = ""
    /\ Len(call.text) = MaxLen
    /\ fwd.py # 0
    /\ py = fwd.py

(***************************************************************************)
(* Ownership.  Arrays, lists and dicts are objects on a heap and a call     *)
(* receives references to the caller's objects.  heap is the sequence of    *)
(* objects allocated so far; an ndarray is a reference [buf, shape, off,    *)
(* stride] into a buffer, so a view (reshape, a channel slice) shares the   *)
(* buffer of its base while copy, fancy indexing, ^, argsort and np.stack   *)
(* allocate.  thr holds the heap, the heap as it was when the call was      *)
(* made, the objects passed to the call, its locals and what it returned.   *)
(***************************************************************************)
RECURSIVE ShapeSize(_)
ShapeSize(shape) ==
    IF shape = <<>> THEN 1 ELSE Head(shape) * ShapeSize(Tail(shape))

\* The rows of c entries of a flat buffer.
Rows(flat, c) == [i \in 1..(Len(flat) \div c) |-> SubSeq(flat, (i - 1) * c + 1, i * c)]

\* The entries of the array a, in row-major order.
nd_elems(heap, a) ==
    [k \in 1..ShapeSize(a.shape) |-> heap[a.buf][a.off + (k - 1) * a.stride]]

\* The positions of the buffer of a that a covers.
nd_positions(a) == {a.off + (k - 1) * a.stride : k \in 1..ShapeSize(a.shape)}

\* A freshly allocated contiguous array.
nd_new(heap, data, shape) ==
    [heap |-> Append(heap, data), exc |-> "",
     ref  |-> [buf |-> Len(heap) + 1, shape |-> shape, off |-> 1, stride |-> 1]]

\* a.copy()
nd_copy(heap, a) == nd_new(heap, nd_elems(heap, a), a.shape)

\* a.reshape(shape) of a contiguous array: a view
nd_reshape(a, shape) == [a EXCEPT !.shape = shape]

\* a[:, :, c] of a contiguous h x w x 3 array: a view
nd_channel(a, c) ==
    [buf |-> a.buf, shape |-> <<a.shape[1], a.shape[2]>>, off |-> c + 1,
     stride |-> a.shape[3]]

\* a ^= k: the entries of a are overwritten where they are
nd_xor_inplace(heap, a, k) ==
    [heap |-> [heap EXCEPT ![a.buf] =
                  [j \in DOMAIN @ |-> IF j \in nd_positions(a)
                                      THEN BitXor(@[j], k) ELSE @[j]]],
     exc |-> "", ref |-> a]

\* a ^ k
nd_xor(heap, a, k) ==
    nd_new(heap, [i \in 1..ShapeSize(a.shape) |-> BitXor(nd_elems(heap, a)[i], k)],
           a.shape)

\* np.stack(arrays, axis=-1)
nd_stack(heap, arrays) ==
    LET n == Len(arrays)
    IN  nd_new(heap,
               [k \in 1..(ShapeSize(arrays[1].shape) * n) |->
                   nd_elems(heap, arrays[((k - 1) % n) + 1])[((k - 1) \div n) + 1]],
               arrays[1].shape \o <<n>>)

\* a[index] of a contiguous rows x c array a
nd_take(heap, a, index) ==
    LET t == np_take(Rows(nd_elems(heap, a), a.shape[2]), nd_elems(heap, index))
    IN  IF t.exc # "" THEN [heap |-> heap, exc |-> t.exc, ref |-> a]
        ELSE nd_new(heap, Join(t.val), <<Len(t.val), a.shape[2]>>)

\* np.argsort(p)
nd_argsort(heap, p) == nd_new(heap, np_argsort(nd_elems(heap, p)), p.shape)

\* The array a as a value: its shape and its rows.
nd_value(heap, a) ==
    [shape |-> a.shape,
     data  |-> Rows(nd_elems(heap, a), IF Len(a.shape) = 3 THEN a.shape[3] ELSE 1)]

\* A Python list or dict allocated on the heap; its reference is its index.
py_new(heap, object) == [heap |-> Append(heap, object), id |-> Len(heap) + 1]

\* confused_text.reverse_position_permutation(text, permutation_key) on the
\* heap: char_list and restored_chars are new lists, and the loop assigns
\* into restored_chars.
own_reverse_position_permutation(heap, text, permutation_key) ==
    LET char_list      == py_new(heap, [i \in 1..Len(text) |-> <<text[i]>>])
        restored_chars == py_new(char_list.heap, [i \in 1..Len(text) |-> <<>>])
        r == scatter_loop(text, heap[permutation_key],
                          Ret([i \in 1..Len(text) |-> <<>>]),
                          1, Len(heap[permutation_key]))
    IN  IF r.exc # "" THEN [heap |-> restored_chars.heap, exc |-> r.exc, val |-> <<>>]
        ELSE [heap |-> [restored_chars.heap EXCEPT ![restored_chars.id] = r.val],
              exc |-> "", val |-> Join(r.val)]

\* confused_text.reverse_character_substitution(text, char_map) on the heap:
\* reverse_map is a new dict.
own_reverse_character_substitution(heap, text, char_map) ==
    LET reverse_map == py_new(heap, dict_invert(heap[char_map]))
    IN  [heap |-> reverse_map.heap, exc |-> "",
         val  |-> map_chars(reverse_map.heap[reverse_map.id], text)]

NoRef == [buf |-> 0, shape |-> <<>>, off |-> 1, stride |-> 1]

\* The caller's objects before the obfuscation call: the pixel array of an
\* image call; a text call passes an immutable str.
CallerHeap(c) ==
    IF c.impl = "confused_image"
    THEN nd_new(<<>>, Join(c.pixels.data), c.pixels.shape)
    ELSE [heap |-> <<>>, exc |-> "", ref |-> NoRef]

InitOwn ==
    /\ py = 0
    /\ np = 0
    /\ \/ \E t \in Texts, k \in Keys, m \in {"basic", "advanced"} :
             call = [impl |-> "confused_text", text |-> t, pixels |-> NoPixels,
                     key |-> k, mode |-> m]
       \/ \E img \in {x \in Images : WellFormed(x)}, k \in ImageKeys :
             call = [impl |-> "confused_image", text |-> <<>>, pixels |-> img,
                     key |-> k, mode |-> "image"]
    /\ phase = "own_call"
    /\ fwd = NoResult
    /\ rcall = NoCall
    /\ rst = NoResult
    /\ thr = [heap |-> CallerHeap(call).heap, before |-> CallerHeap(call).heap,
              pc |-> "copy", args |-> {}, ret |-> <<>>, exc |-> "",
              held |-> CallerHeap(call).ref, pixels |-> CallerHeap(call).ref,
              permutation |-> NoRef, shuffled |-> NoRef, inverse |-> NoRef,
              channels |-> <<>>, text |-> <<>>, metadata |-> 0]

\* The image call is at the statements named pc.
OwnAt(ph, pc) ==
    /\ phase = ph
    /\ call.impl = "confused_image"
    /\ thr.exc = ""
    /\ thr.pc = pc

\* apply_confusion(pixels, key) is entered with the caller's array:
\* pixels = np.stack([pixels]*3, axis=-1) if it is 2-D; pixels = pixels.copy()
OwnCopy ==
    /\ OwnAt("own_call", "copy")
    /\ LET stacked == IF Len(thr.held.shape) = 2
                      THEN nd_stack(thr.heap, <<thr.held, thr.held, thr.held>>)
                      ELSE [heap |-> thr.heap, exc |-> "", ref |-> thr.held]
           copied  == nd_copy(stacked.heap, stacked.ref)
       IN  thr' = [thr EXCEPT !.before = thr.heap, !.args = {thr.held.buf},
                              !.heap = copied.heap, !.pixels = copied.ref,
                              !.pc = "permute"]
    /\ UNCHANGED <<py, np, call, phase, fwd, rcall, rst>>

\* flattened = pixels.reshape(-1, c); np.random.seed(key);
\* permutation = np.random.permutation(...); shuffled = flattened[permutation]
OwnPermute ==
    /\ OwnAt("own_call", "permute")
    /\ LET h == thr.pixels.shape[1]
           w == thr.pixels.shape[2]
           c == thr.pixels.shape[3]
           flattened == nd_reshape(thr.pixels, <<h * w, c>>)
       IN  IF ~np_seed_valid(call.key)
           THEN /\ thr' = [thr EXCEPT !.exc = IF call.key.kind = "int"
                                              THEN "ValueError" ELSE "TypeError"]
                /\ fwd' = img_apply_confusion(call.pixels, call.key, Globals(py, np))
                /\ phase' = "own_confused"
                /\ np' = np
           ELSE LET p == np_random_permutation(h * w, np_random_seed(call.key))
                    permutation == nd_new(thr.heap, p.x, <<h * w>>)
                    taken == nd_take(permutation.heap, flattened, permutation.ref)
                IN  /\ thr' = [thr EXCEPT !.heap = taken.heap,
                                          !.permutation = permutation.ref,
                                          !.shuffled = nd_reshape(taken.ref, <<h, w, c>>),
                                          !.pc = "xor"]
                    /\ np' = p.st
                    /\ UNCHANGED <<phase, fwd>>
    /\ UNCHANGED <<py, call, rcall, rst>>

\* r, g, b = shuffled[:, :, 0..2]; r_confused = r ^ r_key; g_confused = g ^ g_key;
\* b_confused = b ^ b_key
OwnXor ==
    /\ OwnAt("own_call", "xor")
    /\ LET r_confused == nd_xor(thr.heap, nd_channel(thr.shuffled, 0),
                                (call.key.n + RMask) % 256)
           g_confused == nd_xor(r_confused.heap, nd_channel(thr.shuffled, 1),
                                (call.key.n + GMask) % 256)
           b_confused == nd_xor(g_confused.heap, nd_channel(thr.shuffled, 2),
                                (call.key.n + BMask) % 256)
       IN  thr' = [thr EXCEPT !.heap = b_confused.heap,
                              !.channels = <<r_confused.ref, g_confused.ref,
                                             b_confused.ref>>,
                              !.pc = "stack"]
    /\ UNCHANGED <<py, np, call, phase, fwd, rcall, rst>>

\* confused_pixels = np.stack([g_confused, b_confused, r_confused], axis=-1);
\* return confused_pixels, permutation
OwnStack ==
    /\ OwnAt("own_call", "stack")
    /\ LET confused_pixels ==
               nd_stack(thr.heap, <<thr.channels[2], thr.channels[3], thr.channels[1]>>)
       IN  thr' = [thr EXCEPT !.heap = confused_pixels.heap,
                              !.ret = <<confused_pixels.ref, thr.permutation>>,
                              !.pc = "returned"]
    /\ fwd' = img_apply_confusion(call.pixels, call.key, Globals(py, 0))
    /\ phase' = "own_confused"
    /\ UNCHANGED <<py, np, call, rcall, rst>>

\* The caller calls restore_image(pixels, key, permutation) with the array
\* and the permutation it was returned, or with a permutation of its own
\* that is one entry short or long.
OwnRestoreImageCall ==
    /\ OwnAt("own_confused", "returned")
    /\ \E q \in {nd_elems(thr.heap, thr.ret[2])}
                   \cup Mismatched(nd_elems(thr.heap, thr.ret[2])) :
          LET passed == IF q = nd_elems(thr.heap, thr.ret[2])
                        THEN [heap |-> thr.heap, exc |-> "", ref |-> thr.ret[2]]
                        ELSE nd_new(thr.heap, q, <<Len(q)>>)
          IN  /\ thr' = [thr EXCEPT !.heap = passed.heap, !.before = passed.heap,
                                    !.held = thr.ret[1], !.pixels = thr.ret[1],
                                    !.permutation = passed.ref,
                                    !.args = {thr.ret[1].buf, passed.ref.buf},
                                    !.ret = <<>>, !.pc = "r_xor"]
              /\ rcall' = [text |-> <<>>, pixels |-> nd_value(thr.heap, thr.ret[1]),
                           key |-> call.key, metadata |-> [permutation |-> q],
                           mode |-> call.mode]
    /\ phase' = "own_restoring"
    /\ UNCHANGED <<py, np, call, fwd, rst>>

\* g_confused, b_confused, r_confused = pixels[:, :, 0..2]; r = r_confused ^ r_key;
\* g = g_confused ^ g_key; b = b_confused ^ b_key
OwnRstXor ==
    /\ OwnAt("own_restoring", "r_xor")
    /\ LET r == nd_xor(thr.heap, nd_channel(thr.pixels, 2),
                       (rcall.key.n + RMask) % 256)
           g == nd_xor(r.heap, nd_channel(thr.pixels, 0),
                       (rcall.key.n + GMask) % 256)
           b == nd_xor(g.heap, nd_channel(thr.pixels, 1),
                       (rcall.key.n + BMask) % 256)
       IN  thr' = [thr EXCEPT !.heap = b.heap, !.channels = <<r.ref, g.ref, b.ref>>,
                              !.pc = "r_stack"]
    /\ UNCHANGED <<py, np, call, phase, fwd, rcall, rst>>

\* restored_shuffled = np.stack([r, g, b], axis=-1);
\* flattened = restored_shuffled.reshape(-1, c);
\* inverse_permutation = np.argsort(permutation)
OwnRstStack ==
    /\ OwnAt("own_restoring", "r_stack")
    /\ LET restored_shuffled == nd_stack(thr.heap, thr.channels)
           inverse_permutation == nd_argsort(restored_shuffled.heap, thr.permutation)
       IN  thr' = [thr EXCEPT !.heap = inverse_permutation.heap,
                              !.shuffled = restored_shuffled.ref,
                              !.inverse = inverse_permutation.ref,
                              !.pc = "r_take"]
    /\ UNCHANGED <<py, np, call, phase, fwd, rcall, rst>>

\* restored_flat = flattened[inverse_permutation];
\* return restored_flat.reshape(h, w, c)
OwnRstTake ==
    /\ OwnAt("own_restoring", "r_take")
    /\ LET h == thr.shuffled.shape[1]
           w == thr.shuffled.shape[2]
           c == thr.shuffled.shape[3]
           restored_flat == nd_take(thr.heap, nd_reshape(thr.shuffled, <<h * w, c>>),
                                    thr.inverse)
       IN  thr' = IF restored_flat.exc # ""
                  THEN [thr EXCEPT !.exc = "IndexError"]
                  ELSE IF ShapeSize(restored_flat.ref.shape) # h * w * c
                  THEN [thr EXCEPT !.heap = restored_flat.heap, !.exc = "ValueError"]
                  ELSE [thr EXCEPT !.heap = restored_flat.heap, !.pc = "restored",
                                   !.ret = <<nd_reshape(restored_flat.ref, <<h, w, c>>)>>]
    /\ rst' = restore_image(rcall.pixels, rcall.key, rcall.metadata.permutation,
                            Globals(py, np))
    /\ phase' = "own_restored"
    /\ UNCHANGED <<py, np, call, fwd, rcall>>

\* The caller's objects after confused_text.apply_confusion returned v: a new
\* metadata dict holding a new list and, in advanced mode, a new dict.
CtReturned(v) ==
    /\ fwd' = v
    /\ py' = v.py
    /\ IF v.exc # ""
       THEN thr' = [thr EXCEPT !.exc = v.exc]
       ELSE LET pk == py_new(thr.heap, v.val[2].permutation_key)
                cm == py_new(pk.heap, IF call.mode = "advanced"
                                      THEN v.val[2].char_map ELSE <<>>)
                md == py_new(cm.heap,
                             IF call.mode = "advanced"
                             THEN [char_map |-> cm.id, permutation_key |-> pk.id]
                             ELSE [permutation_key |-> pk.id])
            IN  thr' = [thr EXCEPT !.heap = md.heap, !.metadata = md.id,
                                   !.pc = "returned"]

\* confused_text.apply_confusion(text, key, mode): the caller receives a str
\* and the metadata.
OwnCtApplyConfusion ==
    /\ phase = "own_call"
    /\ call.impl = "confused_text"
    /\ CtReturned(ct_apply_confusion(call.text, call.key, call.mode, Globals(py, np)))
    /\ phase' = "own_confused"
    /\ UNCHANGED <<np, call, rcall, rst>>

\* restore_text is entered with the text t and the caller's metadata dict; d
\* is the outcome of its first statement.
CtEntered(t, d) ==
    /\ thr' = [thr EXCEPT !.before = thr.heap,
                          !.args = {thr.metadata} \cup
                                   {thr.heap[thr.metadata][f] :
                                      f \in DOMAIN thr.heap[thr.metadata]},
                          !.text = d.val, !.exc = d.exc,
                          !.pc = "reverse_position_permutation"]
    /\ rcall' = [text |-> t, pixels |-> NoPixels, key |-> call.key,
                 metadata |-> fwd.val[2], mode |-> call.mode]
    /\ IF d.exc # ""
       THEN /\ phase' = "own_restored"
            /\ rst' = Raise(d.exc, "reverse_compression", py, np)
       ELSE /\ phase' = "own_restoring"
            /\ rst' = rst

\* The caller calls restore_text(confused_text, key, metadata, mode) with its
\* metadata dict and the text it was returned or a corrupted copy of it.
\* Advanced mode: decompressed_text = reverse_compression(confused_text)
OwnCtRestoreTextCall ==
    /\ phase = "own_confused"
    /\ call.impl = "confused_text"
    /\ thr.exc = ""
    /\ thr.pc = "returned"
    /\ \E t \in {fwd.val[1]} \cup Corrupted(fwd.val[1]) :
          CtEntered(t, IF call.mode = "advanced" THEN reverse_compression(t)
                       ELSE Ret(t))
    /\ UNCHANGED <<py, np, call, fwd>>

OwnCtAt(pc) ==
    /\ phase = "own_restoring"
    /\ call.impl = "confused_text"
    /\ thr.exc = ""
    /\ thr.pc = pc

\* The statement has left the heap and the text r; last: restore_text returns.
CtStatementDone(r, last) ==
    /\ thr' = [thr EXCEPT !.heap = r.heap, !.text = r.val, !.exc = r.exc,
                          !.pc = IF last THEN "restored"
                                 ELSE "reverse_character_substitution"]
    /\ phase' = IF last THEN "own_restored" ELSE phase
    /\ rst' = IF ~last THEN rst
              ELSE IF r.exc # ""
              THEN Raise(r.exc, "reverse_position_permutation", py, np)
              ELSE Ok(r.val, py, np)

\* reverse_position_permutation(text, metadata['permutation_key'])
OwnReversePositionPermutation ==
    /\ OwnCtAt("reverse_position_permutation")
    /\ \E last \in BOOLEAN :
          /\ last = (rcall.mode = "basic"
                       \/ reverse_position_permutation(
                              thr.text, rcall.metadata.permutation_key).exc # "")
          /\ CtStatementDone(own_reverse_position_permutation(
                                 thr.heap, thr.text,
                                 thr.heap[thr.metadata].permutation_key), last)
    /\ UNCHANGED <<py, np, call, fwd, rcall>>

\* return reverse_character_substitution(restored_permuted, metadata['char_map'])
OwnReverseCharacterSubstitution ==
    /\ OwnCtAt("reverse_character_substitution")
    /\ CtStatementDone(own_reverse_character_substitution(
                           thr.heap, thr.text, thr.heap[thr.metadata].char_map),
                       TRUE)
    /\ UNCHANGED <<py, np, call, fwd, rcall>>

NextOwn ==
    \/ OwnCopy
    \/ OwnPermute
    \/ OwnXor
    \/ OwnStack
    \/ OwnRestoreImageCall
    \/ OwnRstXor
    \/ OwnRstStack
    \/ OwnRstTake
    \/ OwnCtApplyConfusion
    \/ OwnCtRestoreTextCall
    \/ OwnReversePositionPermutation
    \/ OwnReverseCharacterSubstitution

SpecOwn == InitOwn /\ [][NextOwn]_vars

\* The calls on the heap compute what the calls on values compute.
OwnAgreesWithValues ==
    /\ (phase = "own_confused" /\ call.impl = "confused_image") =>
          /\ thr.exc = fwd.exc
          /\ thr.exc = "" => /\ nd_value(thr.heap, thr.ret[1]) = fwd.val[1]
                             /\ nd_elems(thr.heap, thr.ret[2]) = fwd.val[2]
                             /\ np = fwd.np
    /\ (phase = "own_restored" /\ call.impl = "confused_image") =>
          /\ thr.exc = rst.exc
          /\ thr.exc = "" => nd_value(thr.heap, thr.ret[1]) = rst.val
    /\ (phase = "own_restored" /\ call.impl = "confused_text") =>
          /\ thr.exc = rst.exc
          /\ thr.exc = "" => thr.text = rst.val
          /\ rst = ct_restore_text(rcall.text, rcall.key, rcall.metadata, rcall.mode,
                                   Globals(py, np))

\* C15: the pipelines never mutate caller-owned input.  During and after the
\* image apply_confusion and restore_image the caller's pixel array and
\* permutation array hold the values they held before the call, during and
\* after confused_text restore_text the caller's metadata (the dict, its
\* permutation list and its character map) is unchanged, and a returned
\* array is a buffer that did not exist before the call.
C15_InputsUntouched ==
    (phase \in {"own_call", "own_confused", "own_restoring", "own_restored"}
       /\ thr.args # {}) =>
        /\ \A id \in thr.args : thr.heap[id] = thr.before[id]
        /\ call.impl = "confused_image" =>
              \A i \in 1..Len(thr.ret) : thr.ret[i].buf \notin 1..Len(thr.before)

\* restore_image has returned an image that differs from the array it was
\* passed, and the caller's array and permutation are as they were.
C15_Witness ==
    /\ phase = "own_restored"
    /\ call.impl = "confused_image"
    /\ thr.exc = ""
    /\ Cardinality(thr.args) = 2
    /\ nd_elems(thr.heap, thr.ret[1]) # nd_elems(thr.heap, thr.held)
    /\ nd_elems(thr.heap, thr.held) = nd_elems(thr.before, thr.held)
    /\ nd_elems(thr.heap, thr.permutation) = nd_elems(thr.before, thr.permutation)
    /\ nd_value(thr.heap, thr.ret[1]).data = np_stack3(call.pixels).data

\* restore_text has returned the text in advanced mode and the caller's
\* metadata dict, permutation list and character map are as they were.
C15_TextWitness ==
    /\ phase = "own_restored"
    /\ call.impl = "confused_text"
    /\ call.mode = "advanced"
    /\ thr.exc = ""
    /\ Cardinality(thr.args) = 3
    /\ call.text = <<97, 233, 0>>
    /\ thr.text = call.text
    /\ Len(thr.heap) > Len(thr.before)
    /\ \A id \in thr.args : thr.heap[id] = thr.before[id]

\* The call whose turn it is executes op.
Running(t, op) == phase = "threads" /\ Turn(t) /\ ~Done(t) /\ thr[t].op = op

\* C16: aes_encrypt draws a fresh salt and a fresh IV from the OS random
\* source on every call.  Whatever the password and whatever state earlier
\* calls left the seeded generators in, every value of the OS source can be
\* the salt and every value can be the IV, and no step of aes_encrypt changes
\* the state of the seeded generators.
C16_FreshSaltAndIv ==
    \A t \in 1..MaxCalls :
        /\ (Running(t, "aes_encrypt") /\ AtStep(t, "derive_key")) =>
              /\ \A salt \in urandom(SaltLen) :
                    ENABLED (DeriveKeySalt(t) /\ thr'[t].salt = salt)
              /\ ~ENABLED (DeriveKeySalt(t) /\ (py' # py \/ np' # np))
        /\ (Running(t, "aes_encrypt") /\ AtStep(t, "generate_iv")) =>
              /\ \A iv \in urandom(AesBlockSize) :
                    ENABLED (GenerateIv(t) /\ thr'[t].iv = iv)
              /\ ~ENABLED (GenerateIv(t) /\ (py' # py \/ np' # np))

\* Two encryptions with the same password, made one after the other with the
\* seeded generators in the same state (an earlier call seeded them), have
\* drawn different salts and different IVs.
C16_Witness ==
    /\ Done(MaxCalls)
    /\ thr[1].op = "generate_permutation_key"
    /\ py # 0
    /\ thr[2].op = "aes_encrypt"
    /\ thr[3].op = "aes_encrypt"
    /\ thr[2].key = thr[3].key
    /\ thr[2].salt # thr[3].salt
    /\ thr[2].iv # thr[3].iv

(***************************************************************************)
(* The sidecar files.  process_file of confused_text.py writes the metadata *)
(* with json.dump and reads it with json.load; process_file of              *)
(* text_processor.py and process_image write the permutation with np.save   *)
(* and read it with np.load.  A JSON document is modelled by its structure   *)
(* with every string and number as the text json writes for it; an .npy     *)
(* file by its dtype, its shape and its bytes.                              *)
(***************************************************************************)
HexDigit(d) == IF d < 10 THEN 48 + d ELSE 87 + d
HexValue(c) == IF c <= 57 THEN c - 48 ELSE IF c <= 70 THEN c - 55 ELSE c - 87

\* The short escapes of json: \b \t \n \f \r
ShortEscapes == {<<8, 98>>, <<9, 116>>, <<10, 110>>, <<12, 102>>, <<13, 114>>}

\* json.dumps of one character of a str (ensure_ascii=True), for characters
\* of the basic multilingual plane.
json_escape_char(c) ==
    IF c = 34 THEN <<92, 34>>
    ELSE IF c = 92 THEN <<92, 92>>
    ELSE IF \E e \in ShortEscapes : e[1] = c
    THEN <<92, (CHOOSE e \in ShortEscapes : e[1] = c)[2]>>
    ELSE IF c < 32 \/ c > 126
    THEN <<92, 117, HexDigit(c \div 4096), HexDigit((c \div 256) % 16),
           HexDigit((c \div 16) % 16), HexDigit(c % 16)>>
    ELSE <<c>>

\* json.dumps(s) of a str
json_dumps_str(str) ==
    <<34>> \o Join([i \in 1..Len(str) |-> json_escape_char(str[i])]) \o <<34>>

RECURSIVE json_unescape(_)
json_unescape(body) ==
    IF body = <<>> THEN <<>>
    ELSE IF body[1] # 92 THEN <<body[1]>> \o json_unescape(Tail(body))
    ELSE IF body[2] = 117
    THEN <<HexValue(body[3]) * 4096 + HexValue(body[4]) * 256
             + HexValue(body[5]) * 16 + HexValue(body[6])>>
            \o json_unescape(SubSeq(body, 7, Len(body)))
    ELSE IF \E e \in ShortEscapes : e[2] = body[2]
    THEN <<(CHOOSE e \in ShortEscapes : e[2] = body[2])[1]>>
            \o json_unescape(SubSeq(body, 3, Len(body)))
    ELSE <<body[2]>> \o json_unescape(SubSeq(body, 3, Len(body)))

\* json.loads of a string literal
json_loads_str(literal) == json_unescape(SubSeq(literal, 2, Len(literal) - 1))

RECURSIVE decimal(_)
decimal(n) == IF n < 10 THEN <<48 + n>> ELSE decimal(n \div 10) \o <<48 + (n % 10)>>

\* json.dumps(n) of an int
json_dumps_int(n) == IF n < 0 THEN <<45>> \o decimal(-n) ELSE decimal(n)

RECURSIVE decimal_value(_)
decimal_value(text) ==
    IF text = <<>> THEN 0
    ELSE decimal_value(SubSeq(text, 1, Len(text) - 1)) * 10 + (text[Len(text)] - 48)

\* A reader of numbers that stops after the first digit.
json_loads_int_first_digit(literal) ==
    IF literal[1] = 45 THEN -(literal[2] - 48) ELSE literal[1] - 48

\* json.loads of a number literal
json_loads_int(literal) ==
    IF literal[1] = 45 THEN -decimal_value(Tail(literal)) ELSE decimal_value(literal)

\* json.dump(metadata, f): 'permutation_key' is a list of ints, 'char_map' a
\* dict from one-character strings to one-character strings.
json_dump(metadata) ==
    [f \in DOMAIN metadata |->
        IF f = "char_map"
        THEN {<<json_dumps_str(<<k>>), json_dumps_str(<<metadata[f][k]>>)>> :
                 k \in DOMAIN metadata[f]}
        ELSE [i \in 1..Len(metadata[f]) |-> json_dumps_int(metadata[f][i])]]

\* json.load(f)
json_load(document) ==
    [f \in DOMAIN document |->
        IF f = "char_map"
        THEN [k \in {json_loads_str(m[1])[1] : m \in document[f]} |->
                 json_loads_str((CHOOSE m \in document[f] :
                                    json_loads_str(m[1])[1] = k)[2])[1]]
        ELSE [i \in 1..Len(document[f]) |-> json_loads_int(document[f][i])]]

\* The 8 bytes of an int64, least significant first.
RECURSIVE le_bytes(_, _)
le_bytes(n, count) ==
    IF count = 0 THEN <<>> ELSE <<n % 256>> \o le_bytes(n \div 256, count - 1)

RECURSIVE le_unsigned(_)
le_unsigned(bytes) ==
    IF bytes = <<>> THEN 0 ELSE bytes[1] + 256 * le_unsigned(Tail(bytes))

\* The int64 whose bytes these are (two's complement).
le_int64(bytes) ==
    IF bytes[8] >= 128
    THEN -(1 + le_unsigned([i \in 1..8 |-> 255 - bytes[i]]))
    ELSE le_unsigned(bytes)

\* np.save(path, permutation) of a 1-D int64 array
npy_save(permutation) ==
    [descr |-> "<i8", fortran_order |-> FALSE, shape |-> <<Len(permutation)>>,
     data  |-> Join([i \in 1..Len(permutation) |-> le_bytes(permutation[i], 8)])]

\* np.load(path)
npy_load(file) ==
    [i \in 1..file.shape[1] |-> le_int64(SubSeq(file.data, 8 * (i - 1) + 1, 8 * i))]

\* process_file(..., mode='restore') of confused_text.py: the metadata is
\* what json.load gives for the sidecar json.dump wrote.
CtProcessFileRestore ==
    /\ phase = "confused"
    /\ call.impl = "confused_text"
    /\ fwd.exc = ""
    /\ \E a \in CtRestoreCalls :
          Restore(a, ct_restore_text(a.text, a.key, json_load(json_dump(a.metadata)),
                                     a.mode, Globals(py, np)))

\* process_file(..., mode='restore') of text_processor.py: outside mode aes
\* the permutation is what np.load gives for the sidecar np.save wrote; a
\* forward call in mode aes wrote no sidecar.
TpProcessFileRestore ==
    /\ phase = "confused"
    /\ call.impl = "text_processor"
    /\ fwd.exc = ""
    /\ \E a \in TpRestoreCalls :
          /\ call.mode # "aes" \/ a.mode = "aes"
          /\ Restore(a, tp_restore_text(
                            a.text, a.key,
                            IF a.mode = "aes" THEN a.metadata.permutation
                            ELSE npy_load(npy_save(a.metadata.permutation)),
                            a.mode, Globals(py, np)))

\* process_image(..., mode='restore'): permutation = np.load(perm_file)
ProcessImageRestore ==
    /\ phase = "confused"
    /\ call.impl = "confused_image"
    /\ fwd.exc = ""
    /\ \E a \in ImgRestoreCalls :
          Restore(a, restore_image(a.pixels, a.key,
                                   npy_load(npy_save(a.metadata.permutation)),
                                   Globals(py, np)))

NextSidecar ==
    \/ CtApplyConfusion
    \/ TpApplyTextConfusion
    \/ ImgApplyConfusion
    \/ CtProcessFileRestore
    \/ TpProcessFileRestore
    \/ ProcessImageRestore

SpecSidecar == Init /\ [][NextSidecar]_vars

\* The outcome of the restoration call rcall made with the metadata object
\* the caller holds in memory.
InMemoryRestore ==
    IF call.impl = "confused_text"
    THEN ct_restore_text(rcall.text, rcall.key, rcall.metadata, rcall.mode,
                         Globals(fwd.py, fwd.np))
    ELSE IF call.impl = "text_processor"
    THEN tp_restore_text(rcall.text, rcall.key, rcall.metadata.permutation,
                         rcall.mode, Globals(fwd.py, fwd.np))
    ELSE restore_image(rcall.pixels, rcall.key, rcall.metadata.permutation,
                       Globals(fwd.py, fwd.np))

\* C17: restoring with the metadata written to the sidecar file and loaded
\* back (JSON for confused_text.py, .npy for text_processor.py and
\* confused_image.py) has the outcome of restoring with the metadata object
\* the obfuscation call returned in memory: the same payload, or the same
\* exception.
C17_SidecarRoundTrip ==
    phase = "restored" => rst = InMemoryRestore

\* An advanced restoration of 'Hello, World!' from its JSON sidecar, which
\* holds a two-digit index and the escaped key '"', has returned the text.
C17_Witness ==
    /\ Restored("confused_text")
    /\ call.mode = "advanced"
    /\ call.text = Hello
    /\ rcall = CtFaithfulCall
    /\ rst.exc = ""
    /\ rst.val = call.text
    /\ \E i \in 1..Len(Hello) :
          json_dump(rcall.metadata).permutation_key[i] = <<49, 50>>
    /\ \E m \in json_dump(rcall.metadata).char_map : m[1] = <<34, 92, 34, 34>>
    /\ json_load(json_dump(rcall.metadata)) = rcall.metadata

\* A restoration of an image from its .npy sidecar has returned the image.
C17_ImageWitness ==
    /\ Restored("confused_image")
    /\ rcall = ImgFaithfulCall
    /\ rst.exc = ""
    /\ Len(rcall.metadata.permutation) = MaxPixels
    /\ Len(npy_save(rcall.metadata.permutation).data) = 8 * MaxPixels
    /\ rst.val.data = np_stack3(call.pixels).data

\* The permutation applied to the character-substituted text: entry i of the
\* result is the substituted character at index permutation[i].
PermutedSubstitution(text, key, permutation) ==
    LET substituted == apply_character_substitution(text, key).val[1]
    IN  [i \in 1..Len(permutation) |-> substituted[permutation[i] + 1]]

\* C18: in basic text mode the obfuscated text is the seeded position
\* permutation applied to the character-substituted text, and the metadata is
\* the permutation alone, for apply_confusion(text, key, 'basic') of
\* confused_text.py and for basic_text_confusion of text_processor.py.
C18_BasicComposition ==
    /\ (Called("confused_text") /\ call.mode = "basic" /\ fwd.exc = "") =>
          /\ DOMAIN fwd.val[2] = {"permutation_key"}
          /\ fwd.val[1] = PermutedSubstitution(call.text, call.key,
                                               fwd.val[2].permutation_key)
    /\ (Called("text_processor") /\ call.mode = "basic" /\ fwd.exc = "") =>
          fwd.val[1] = PermutedSubstitution(call.text, call.key, fwd.val[2])

\* apply_confusion(text, key, 'basic') of confused_text.py has returned the
\* characters of the text, permuted and not substituted.
C18_Witness ==
    /\ Called("confused_text")
    /\ call.mode = "basic"
    /\ fwd.exc = ""
    /\ call.text = <<97, 97>>
    /\ fwd.val[1] = call.text
    /\ apply_character_substitution(call.text, call.key).val[1] # call.text

\* basic_text_confusion of text_processor.py has returned a text shorter
\* than the permutation it returned.
C18_ShorterWitness ==
    /\ Called("text_processor")
    /\ call.mode = "basic"
    /\ fwd.exc = ""
    /\ Len(fwd.val[1]) < Len(fwd.val[2])

\* C19: apply_confusion(text, key, 'advanced') of confused_text.py computes
\* the substitution with seed key, then the position permutation with seed
\* key + 1, then deflate compression, then base64; its metadata holds exactly
\* the substitution map and the permutation those two steps produced.
C19_AdvancedComposition ==
    (phase = "steps" /\ thr[1].metadata # <<>>) =>
        LET f == thr[1]
            s == apply_character_substitution(f.text, f.key)
            p == apply_position_permutation(s.val[1], IntKey(f.key.n + 1))
        IN  /\ f.done = <<"apply_character_substitution",
                          "apply_position_permutation", "apply_compression">>
            /\ f.substituted_text = s.val[1]
            /\ f.permuted_text = p.val[1]
            /\ f.compressed_text
                  = b64encode(zlib_compress(str_encode(f.permuted_text).val))
            /\ DOMAIN f.metadata = {"char_map", "permutation_key"}
            /\ f.metadata.char_map = s.val[2]
            /\ f.metadata.permutation_key = p.val[2]
            /\ ct_apply_confusion(f.text, f.key, "advanced", Globals(0, 0)).val
                  = <<f.compressed_text, f.metadata>>

\* The advanced call on 'Hello, World!' has returned, and its permutation is
\* not the one the key itself seeds.
C19_Witness ==
    /\ Returned("apply_confusion")
    /\ thr[1].text = Hello
    /\ thr[1].substituted_text # Hello
    /\ thr[1].metadata.permutation_key
          # apply_position_permutation(thr[1].substituted_text, thr[1].key).val[2]
    /\ thr[1].metadata.permutation_key
          = apply_position_permutation(thr[1].substituted_text,
                                       IntKey(thr[1].key.n + 1)).val[2]
    /\ reverse_compression(thr[1].compressed_text).val = thr[1].permuted_text

\* C20: advanced restoration in confused_text.py undoes the forward steps in
\* exactly reverse order: base64 decoding and decompression first, then the
\* inverse permutation, then the inverse substitution, each step working on
\* the result of the step before it and none starting before that step has
\* finished.
C20_ReverseOrder ==
    (phase = "steps" /\ thr[1].fn = "restore_text") =>
        LET f == thr[1]
            n == Len(f.rdone)
        IN  /\ f.rdone = SubSeq(<<"reverse_compression", "reverse_position_permutation",
                                  "reverse_character_substitution">>, 1, n)
            /\ n >= 1 => f.decompressed_text = reverse_compression(f.confused_text).val
            /\ n >= 2 => f.restored_permuted
                            = reverse_position_permutation(
                                  f.decompressed_text, f.metadata.permutation_key).val
            /\ n >= 3 => f.restored
                            = reverse_character_substitution(
                                  f.restored_permuted, f.metadata.char_map)
            /\ (f.exc = "" /\ f.pc <= 3) => f.pc = n + 1

\* The advanced restoration of 'Hello, World!' has run its three steps in
\* order and returned the text.
C20_Witness ==
    /\ Returned("restore_text")
    /\ thr[1].text = Hello
    /\ thr[1].rdone = <<"reverse_compression", "reverse_position_permutation",
                        "reverse_character_substitution">>
    /\ thr[1].decompressed_text # thr[1].restored_permuted
    /\ thr[1].restored_permuted # thr[1].restored
    /\ thr[1].restored = Hello

(***************************************************************************)
(* Inverting a reorder: the forward reorder Y[i] = X[P[i]] of              *)
(* apply_position_permutation, inverted by the scatter loop of             *)
(* confused_text.reverse_position_permutation, by the gather               *)
(* flattened[np.argsort(permutation)] of confused_image.restore_image and  *)
(* by the gather np.array(char_list)[np.argsort(permutation)] of           *)
(* text_processor.  The frame thr[1] holds P, X, Y and the three results.  *)
(***************************************************************************)
PermutationsOf(n) ==
    {p \in [1..n -> 0..(n - 1)] : \A i, j \in 1..n : p[i] = p[j] => i = j}

NotRun == [exc |-> "none", val |-> <<>>]

\* The samples of a sequence as the rows of a one-channel pixel buffer.
AsRows(x) == [i \in 1..Len(x) |-> <<x[i]>>]

InitReorder ==
    /\ py = 0
    /\ np = 0
    /\ call = NoCall
    /\ phase = "reorder"
    /\ fwd = NoResult
    /\ rcall = NoCall
    /\ rst = NoResult
    /\ \E n \in 0..MaxLen : \E P \in PermutationsOf(n), X \in [1..n -> TextChars] :
          thr = <<[P |-> P, X |-> X, Y |-> <<>>, pc |-> "forward",
                   scatter |-> NotRun, gather |-> NotRun, text_gather |-> NotRun]>>

\* permuted_chars = [char_list[i] for i in permutation_key]
ForwardReorder ==
    /\ phase = "reorder"
    /\ thr[1].pc = "forward"
    /\ thr' = <<[thr[1] EXCEPT
                   !.Y = [i \in 1..Len(thr[1].X) |-> thr[1].X[thr[1].P[i] + 1]],
                   !.pc = "invert"]>>
    /\ UNCHANGED <<py, np, call, phase, fwd, rcall, rst>>

\* reverse_position_permutation(Y, P)
ScatterInversion ==
    /\ phase = "reorder"
    /\ thr[1].pc = "invert"
    /\ thr[1].scatter = NotRun
    /\ thr' = <<[thr[1] EXCEPT
                   !.scatter = reverse_position_permutation(thr[1].Y, thr[1].P)]>>
    /\ UNCHANGED <<py, np, call, phase, fwd, rcall, rst>>

\* restored_flat = flattened[np.argsort(permutation)]
GatherInversion ==
    /\ phase = "reorder"
    /\ thr[1].pc = "invert"
    /\ thr[1].gather = NotRun
    /\ thr' = <<[thr[1] EXCEPT
                   !.gather = np_take(AsRows(thr[1].Y), np_argsort(thr[1].P))]>>
    /\ UNCHANGED <<py, np, call, phase, fwd, rcall, rst>>

\* ''.join(np.array(char_list)[np.argsort(permutation)])
TextGatherInversion ==
    /\ phase = "reorder"
    /\ thr[1].pc = "invert"
    /\ thr[1].text_gather = NotRun
    /\ thr' = <<[thr[1] EXCEPT
                   !.text_gather = np_take_join(thr[1].Y, np_argsort(thr[1].P))]>>
    /\ UNCHANGED <<py, np, call, phase, fwd, rcall, rst>>

NextReorder ==
    \/ ForwardReorder
    \/ ScatterInversion
    \/ GatherInversion
    \/ TextGatherInversion

SpecReorder == InitReorder /\ [][NextReorder]_vars

\* The two inversions that agree on every input: the scatter loop and the
\* gather of restore_image both return X.
ScatterAndImageGatherInvert ==
    phase = "reorder" =>
        /\ thr[1].scatter # NotRun => thr[1].scatter = Ret(thr[1].X)
        /\ thr[1].gather # NotRun => thr[1].gather = Ret(AsRows(thr[1].X))

\* The gather of text_processor returns X when X has no NUL character.
TextGatherInvertsWithoutNul ==
    (phase = "reorder" /\ thr[1].text_gather # NotRun
        /\ \A i \in 1..Len(thr[1].X) : thr[1].X[i] # 0)
    => thr[1].text_gather = Ret(thr[1].X)

\* C21: for every permutation P of 0..N-1 and every sequence X of length N,
\* inverting Y[i] = X[P[i]] returns X with the scatter loop of
\* reverse_position_permutation and with the argsort gather of
\* text_processor.py and confused_image.py, and the inversions agree.
C21_InversionsAgree ==
    phase = "reorder" =>
        /\ thr[1].scatter # NotRun => thr[1].scatter = Ret(thr[1].X)
        /\ thr[1].gather # NotRun => thr[1].gather = Ret(AsRows(thr[1].X))
        /\ thr[1].text_gather # NotRun => thr[1].text_gather = Ret(thr[1].X)
        /\ (thr[1].scatter # NotRun /\ thr[1].text_gather # NotRun)
              => thr[1].scatter = thr[1].text_gather

\* All three inversions have run on a reorder that moved something, and the
\* scatter loop and the image gather returned X.
C21_Witness ==
    /\ phase = "reorder"
    /\ Len(thr[1].X) = MaxLen
    /\ thr[1].Y # thr[1].X
    /\ thr[1].scatter = Ret(thr[1].X)
    /\ thr[1].gather = Ret(AsRows(thr[1].X))
    /\ thr[1].text_gather # NotRun

(***************************************************************************)
(* generate_permutation_key on its own: a length and a seed are drawn, the *)
(* function is called once and its result kept in fwd.                     *)
(***************************************************************************)
MaxKeyLen == 6     \* lengths 0..MaxKeyLen
MaxSeed == 5       \* integer seeds -MaxSeed..MaxSeed

Seeds ==
    {IntKey(n) : n \in (-MaxSeed)..MaxSeed} \cup
    {StrKey(<<>>), StrKey(<<97>>), StrKey(<<97, 98>>), StrKey(<<233>>)}

InitKey ==
    /\ py = 0
    /\ np = 0
    /\ call = NoCall
    /\ phase = "key"
    /\ fwd = NoResult
    /\ rcall = NoCall
    /\ rst = NoResult
    /\ \E length \in 0..MaxKeyLen, seed \in Seeds :
          thr = <<[length |-> length, seed |-> seed, returned |-> FALSE,
                   key |-> <<>>]>>

\* permutation_key = generate_permutation_key(length, seed)
GeneratePermutationKey ==
    /\ phase = "key"
    /\ ~thr[1].returned
    /\ thr' = <<[thr[1] EXCEPT
                   !.returned = TRUE,
                   !.key = generate_permutation_key(thr[1].length,
                                                    thr[1].seed).val]>>
    /\ py' = generate_permutation_key(thr[1].length, thr[1].seed).py
    /\ UNCHANGED <<np, call, phase, fwd, rcall, rst>>

NextKey == GeneratePermutationKey

SpecKey == InitKey /\ [][NextKey]_vars

\* C22: for every length N >= 0 and every seed, generate_permutation_key(N,
\* seed) returns a list of length N holding each integer of 0..N-1 exactly
\* once; for N = 0 the empty list and for N = 1 the list [0].
C22_PermutationKey ==
    (phase = "key" /\ thr[1].returned) =>
        LET N == thr[1].length IN
        /\ Len(thr[1].key) = N
        /\ \A v \in 0..(N - 1) :
              Cardinality({i \in 1..N : thr[1].key[i] = v}) = 1
        /\ N = 0 => thr[1].key = <<>>
        /\ N = 1 => thr[1].key = <<0>>

\* A key of the largest length that is not the identity has been returned
\* for a string seed.
C22_Witness ==
    /\ phase = "key"
    /\ thr[1].returned
    /\ thr[1].length = MaxKeyLen
    /\ thr[1].key # Range(0, MaxKeyLen - 1)
    /\ thr[1].seed.kind = "str"

(***************************************************************************)
(* aes_encrypt followed by the first statements of aes_decrypt on its      *)
(* output, statement by statement.  The frame thr[1] holds the locals of   *)
(* both calls: salt, key, iv, ciphertext of aes_encrypt, the returned      *)
(* envelope, and combined, d_salt, d_iv, d_ciphertext, d_key of            *)
(* aes_decrypt.                                                            *)
(***************************************************************************)
\* Texts whose encoding ends one byte before, and on, a block boundary.
AesTexts ==
    Texts \cup {[i \in 1..(AesBlockSize - 1) |-> 97], [i \in 1..AesBlockSize |-> 97]}

AesFrame(text, password) ==
    [text |-> text, password |-> password, pc |-> "derive_key", exc |-> "",
     salt |-> <<>>, key |-> <<>>, iv |-> <<>>, ciphertext |-> <<>>,
     envelope |-> <<>>, combined |-> <<>>, d_salt |-> <<>>, d_iv |-> <<>>,
     d_ciphertext |-> <<>>, d_key |-> <<>>]

InitAes ==
    /\ py = 0
    /\ np = 0
    /\ call = NoCall
    /\ phase = "aes"
    /\ fwd = NoResult
    /\ rcall = NoCall
    /\ rst = NoResult
    /\ \E text \in AesTexts, password \in Keys : thr = <<AesFrame(text, password)>>

AesAt(pc) == phase = "aes" /\ thr[1].pc = pc

AesStep(frame) ==
    /\ thr' = <<frame>>
    /\ UNCHANGED <<py, np, call, phase, fwd, rcall, rst>>

\* key, salt = derive_key(password)
AesDeriveKey ==
    /\ AesAt("derive_key")
    /\ \E salt \in urandom(SaltLen) :
          IF derive_key(thr[1].password, salt).exc # ""
          THEN AesStep([thr[1] EXCEPT
                          !.pc = "raised",
                          !.exc = derive_key(thr[1].password, salt).exc])
          ELSE AesStep([thr[1] EXCEPT
                          !.pc = "generate_iv", !.salt = salt,
                          !.key = derive_key(thr[1].password, salt).val[1]])

\* iv = generate_iv()
AesGenerateIv ==
    /\ AesAt("generate_iv")
    /\ \E iv \in urandom(AesBlockSize) :
          AesStep([thr[1] EXCEPT !.pc = "encrypt", !.iv = iv])

\* ciphertext = cipher.encrypt(pad(text.encode(), AES.block_size))
AesEncrypt ==
    /\ AesAt("encrypt")
    /\ AesStep([thr[1] EXCEPT
                  !.pc = "combine",
                  !.ciphertext =
                      cbc_encrypt(thr[1].key, thr[1].iv,
                                  pad(str_encode(thr[1].text).val,
                                      AesBlockSize)).val])

\* combined = salt + iv + ciphertext; return base64.b64encode(combined).decode()
AesCombine ==
    /\ AesAt("combine")
    /\ AesStep([thr[1] EXCEPT
                  !.pc = "b64decode",
                  !.envelope = b64encode(thr[1].salt \o thr[1].iv
                                            \o thr[1].ciphertext)])

\* aes_decrypt: combined = base64.b64decode(encrypted_text)
AesDecode ==
    /\ AesAt("b64decode")
    /\ AesStep([thr[1] EXCEPT !.pc = "split",
                              !.combined = b64decode(thr[1].envelope).val])

\* aes_decrypt: salt, iv, ciphertext = the three slices of combined
AesSplit ==
    /\ AesAt("split")
    /\ AesStep([thr[1] EXCEPT
                  !.pc = "d_derive_key",
                  !.d_salt = envelope_split(thr[1].combined).salt,
                  !.d_iv = envelope_split(thr[1].combined).iv,
                  !.d_ciphertext = envelope_split(thr[1].combined).ciphertext])

\* aes_decrypt: key, _ = derive_key(password, salt)
AesDecryptDeriveKey ==
    /\ AesAt("d_derive_key")
    /\ AesStep([thr[1] EXCEPT
                  !.pc = "derived",
                  !.d_key = derive_key(thr[1].password, thr[1].d_salt).val[1]])

NextAes ==
    \/ AesDeriveKey
    \/ AesGenerateIv
    \/ AesEncrypt
    \/ AesCombine
    \/ AesDecode
    \/ AesSplit
    \/ AesDecryptDeriveKey

SpecAes == InitAes /\ [][NextAes]_vars

\* C23: aes_decrypt splits the decoded envelope at the offsets aes_encrypt
\* used: bytes 0..15 are the salt and bytes 16..31 the IV aes_encrypt
\* generated, the rest is the ciphertext, whose length is a positive multiple
\* of 16 (padding adds 1..16 bytes), and the key derived from the password and
\* the extracted salt is the key used to encrypt.
C23_EnvelopeOffsets ==
    /\ (AesAt("d_derive_key") \/ AesAt("derived")) =>
          /\ thr[1].d_salt = thr[1].salt
          /\ thr[1].d_iv = thr[1].iv
          /\ thr[1].d_ciphertext = thr[1].ciphertext
          /\ Len(thr[1].d_salt) = 16
          /\ Len(thr[1].d_iv) = 16
          /\ Len(thr[1].d_ciphertext) > 0
          /\ Len(thr[1].d_ciphertext) % 16 = 0
          /\ Len(thr[1].d_ciphertext) - Len(str_encode(thr[1].text).val) \in 1..16
    /\ AesAt("derived") => thr[1].d_key = thr[1].key

\* The decrypting call has derived its key for an envelope whose salt and IV
\* differ and whose text filled a whole block, so that padding added 16 bytes.
C23_Witness ==
    /\ AesAt("derived")
    /\ thr[1].salt # thr[1].iv
    /\ Len(thr[1].text) = AesBlockSize
    /\ Len(thr[1].d_ciphertext) = 2 * AesBlockSize
    /\ thr[1].d_key = thr[1].key

\* Padding has added a single byte.
C23_OneByteWitness ==
    /\ AesAt("derived")
    /\ Len(thr[1].d_ciphertext) - Len(str_encode(thr[1].text).val) = 1

C24_LargeKeyWitness ==
    /\ Called("confused_image")
    /\ Len(call.pixels.shape) = 3
    /\ call.key.n > 255
    /\ fwd.exc = ""

(***************************************************************************)
(* The channel masks of confused_image: apply_confusion and restore_image  *)
(* run on one key and one sample, each up to its XOR statements.  The      *)
(* frame thr[1] holds the key, the sample, and for each function its       *)
(* position, its three masks and its three XOR-ed samples.                 *)
(***************************************************************************)
MaxMaskKey == 300      \* keys -MaxMaskKey..MaxMaskKey

InitMask ==
    /\ py = 0
    /\ np = 0
    /\ call = NoCall
    /\ phase = "mask"
    /\ fwd = NoResult
    /\ rcall = NoCall
    /\ rst = NoResult
    /\ \E key \in (-MaxMaskKey)..MaxMaskKey, sample \in Samples :
          thr = <<[key |-> key, sample |-> sample,
                   a_pc |-> "seed", a_keys |-> <<>>, a_out |-> <<>>,
                   r_pc |-> "keys", r_keys |-> <<>>, r_out |-> <<>>]>>

MaskStep(frame) ==
    /\ phase = "mask"
    /\ thr' = <<frame>>
    /\ UNCHANGED <<py, np, call, phase, fwd, rcall, rst>>

\* apply_confusion: np.random.seed(key) raises for a key numpy rejects
MaskApplySeed ==
    /\ thr[1].a_pc = "seed"
    /\ MaskStep([thr[1] EXCEPT
                   !.a_pc = IF np_seed_valid(IntKey(thr[1].key))
                            THEN "keys" ELSE "raised"])

\* apply_confusion: r_key, g_key, b_key
MaskApplyKeys ==
    /\ thr[1].a_pc = "keys"
    /\ MaskStep([thr[1] EXCEPT
                   !.a_pc = "xor",
                   !.a_keys = apply_confusion_channel_keys(thr[1].key)])

\* apply_confusion: r ^ r_key, g ^ g_key, b ^ b_key
MaskApplyXor ==
    /\ thr[1].a_pc = "xor"
    /\ MaskStep([thr[1] EXCEPT
                   !.a_pc = "done",
                   !.a_out = [c \in 1..3 |->
                                 BitXor(thr[1].sample, thr[1].a_keys[c])]])

\* restore_image: r_key, g_key, b_key
MaskRestoreKeys ==
    /\ thr[1].r_pc = "keys"
    /\ MaskStep([thr[1] EXCEPT
                   !.r_pc = "xor",
                   !.r_keys = restore_image_channel_keys(thr[1].key)])

\* restore_image: r_confused ^ r_key, g_confused ^ g_key, b_confused ^ b_key
MaskRestoreXor ==
    /\ thr[1].r_pc = "xor"
    /\ MaskStep([thr[1] EXCEPT
                   !.r_pc = "done",
                   !.r_out = [c \in 1..3 |->
                                 BitXor(thr[1].sample, thr[1].r_keys[c])]])

NextMask ==
    \/ MaskApplySeed
    \/ MaskApplyKeys
    \/ MaskApplyXor
    \/ MaskRestoreKeys
    \/ MaskRestoreXor

SpecMask == InitMask /\ [][NextMask]_vars

MasksInRange(keys) ==
    /\ Len(keys) = 3
    /\ \A c \in 1..3 : keys[c] \in 0..255
    /\ \A c, d \in 1..3 : c # d => keys[c] # keys[d]

C25_NegativeKeyWitness ==
    /\ phase = "mask"
    /\ thr[1].key + RMask < 0
    /\ thr[1].r_pc = "done"
    /\ thr[1].a_pc = "raised"

\* The masks of key 0.
C25_ZeroKeyWitness ==
    /\ phase = "mask"
    /\ thr[1].key = 0
    /\ thr[1].a_pc = "done"
    /\ thr[1].r_keys = <<37, 117, 231>>

(***************************************************************************)
(* Files.  A path is [dir, file]: dir the directory as a sequence of       *)
(* component names, file the file name as a str.  A file system is a set   *)
(* of files [dir, file, data, shape]: a text file has shape <<>> and its   *)
(* characters as data; a .npy sidecar and a _meta.json sidecar of basic    *)
(* mode have shape <<n>> and the n integers as data; an image has shape    *)
(* <<h, w, 3>> and its h*w*3 samples as data.  Directories exist as needed *)
(* (os.makedirs(..., exist_ok=True)).                                      *)
(***************************************************************************)
Path(dir, file) == [dir |-> dir, file |-> file]      \* os.path.join(dir, file)
NoPath == Path(<<>>, <<>>)

\* os.path.splitext of a file name: the extension starts at the last dot that
\* has a character other than a dot before it.
splitext(filename) ==
    LET dots == {i \in 1..Len(filename) :
                    filename[i] = 46 /\ \E j \in 1..(i - 1) : filename[j] # 46}
    IN  IF dots = {} THEN <<filename, <<>>>>
        ELSE LET k == CHOOSE i \in dots : \A j \in dots : j <= i
             IN  <<SubSeq(filename, 1, k - 1), SubSeq(filename, k, Len(filename))>>

\* str.lower() on the ASCII letters
lower(s) == [i \in 1..Len(s) |-> IF s[i] \in 65..90 THEN s[i] + 32 ELSE s[i]]

endswith(s, suffix) ==
    Len(s) >= Len(suffix) /\ SubSeq(s, Len(s) - Len(suffix) + 1, Len(s)) = suffix

PermNpy == <<95, 112, 101, 114, 109, 46, 110, 112, 121>>
MetaJson == <<95, 109, 101, 116, 97, 46, 106, 115, 111, 110>>
Png == <<46, 112, 110, 103>>

\* supported_formats of the three process_directory functions
ct_supported_formats == {<<46, 116, 120, 116>>, <<46, 99, 115, 118>>, <<46, 120, 109, 108>>, <<46, 104, 116, 109, 108>>, <<46, 109, 100>>, <<46, 106, 115>>, <<46, 112, 121>>}
tp_supported_formats == {<<46, 116, 120, 116>>, <<46, 99, 115, 118>>, <<46, 106, 115, 111, 110>>, <<46, 120, 109, 108>>, <<46, 104, 116, 109, 108>>, <<46, 109, 100>>}
img_supported_formats == {<<46, 112, 110, 103>>, <<46, 106, 112, 103>>, <<46, 106, 112, 101, 103>>, <<46, 98, 109, 112>>, <<46, 116, 105, 102, 102>>, <<46, 119, 101, 98, 112>>}

\* any(file.lower().endswith(ext) for ext in supported_formats)
supported(file, supported_formats) ==
    \E ext \in supported_formats : endswith(lower(file), ext)

exists(fs, path) == \E f \in fs : f.dir = path.dir /\ f.file = path.file
read(fs, path) == CHOOSE f \in fs : f.dir = path.dir /\ f.file = path.file
write(fs, path, data, shape) ==
    {f \in fs : ~(f.dir = path.dir /\ f.file = path.file)}
        \cup {[dir |-> path.dir, file |-> path.file, data |-> data, shape |-> shape]}

\* np.array(Image.open(path).convert('RGB')) and Image.fromarray(pixels).save(path)
image_open(f) ==
    [shape |-> f.shape,
     data  |-> [i \in 1..(f.shape[1] * f.shape[2]) |->
                    SubSeq(f.data, 3 * (i - 1) + 1, 3 * i)]]
image_save(fs, path, pixels) == write(fs, path, Join(pixels.data), pixels.shape)

\* What process_file / process_image hands back: the value returned, the file
\* system and generators it leaves, and the paths it wrote.
FileOutcome(ret, fs, g, output, sidecar) ==
    [ret |-> ret, fs |-> fs, py |-> g.py, np |-> g.np, output |-> output,
     sidecar |-> sidecar]

\* text_processor.process_file, mode 'confuse', after apply_text_confusion
\* returned or raised r (an exception is caught: return False)
tp_confused(fs, output_path, permutation_path, text_mode, r) ==
    IF r.exc # "" THEN FileOutcome(FALSE, fs, r, NoPath, NoPath)
    ELSE IF text_mode = "aes"
    THEN FileOutcome(TRUE, write(fs, output_path, r.val[1], <<>>), r,
                   output_path, NoPath)
    ELSE FileOutcome(TRUE,
                   write(write(fs, output_path, r.val[1], <<>>),
                         permutation_path, r.val[2], <<Len(r.val[2])>>),
                   r, output_path, permutation_path)

\* text_processor.process_file, mode 'restore', after restore_text returned or
\* raised r
tp_restored(fs, output_path, r) ==
    IF r.exc # "" THEN FileOutcome(FALSE, fs, r, NoPath, NoPath)
    ELSE FileOutcome(TRUE, write(fs, output_path, r.val, <<>>), r, output_path,
                   NoPath)

\* text_processor.process_file(input_path, key, output_dir, prefix, mode,
\* text_mode), with the values os.urandom returns in mode aes
tp_process_file(fs, input_path, key, output_dir, prefix, mode, text_mode, salt, iv, g) ==
    LET name == splitext(input_path.file)[1]
        ext  == splitext(input_path.file)[2]
        output_path == Path(output_dir, prefix \o name \o ext)
    IN  IF ~exists(fs, input_path) THEN FileOutcome(FALSE, fs, g, NoPath, NoPath)
        ELSE IF mode = "confuse"
        THEN tp_confused(fs, output_path,
                         Path(output_dir, prefix \o name \o PermNpy), text_mode,
                         tp_apply_text_confusion(read(fs, input_path).data, key,
                                                 text_mode, salt, iv, g))
        ELSE IF text_mode # "aes"
                /\ ~exists(fs, Path(input_path.dir, prefix \o name \o PermNpy))
        THEN FileOutcome(FALSE, fs, g, NoPath, NoPath)
        ELSE tp_restored(fs, output_path,
                         tp_restore_text(
                             read(fs, input_path).data, key,
                             IF text_mode = "aes" THEN <<>>
                             ELSE read(fs, Path(input_path.dir,
                                                prefix \o name \o PermNpy)).data,
                             text_mode, g))

\* confused_text.process_file, mode 'confuse', after apply_confusion returned
\* or raised r; the metadata of basic mode is {'permutation_key': [...]}
ct_confused(fs, output_path, metadata_path, r) ==
    IF r.exc # "" THEN FileOutcome(FALSE, fs, r, NoPath, NoPath)
    ELSE FileOutcome(TRUE,
                   write(write(fs, output_path, r.val[1], <<>>), metadata_path,
                         r.val[2].permutation_key,
                         <<Len(r.val[2].permutation_key)>>),
                   r, output_path, metadata_path)

ct_restored(fs, output_path, r) ==
    IF r.exc # "" THEN FileOutcome(FALSE, fs, r, NoPath, NoPath)
    ELSE FileOutcome(TRUE, write(fs, output_path, r.val, <<>>), r, output_path,
                   NoPath)

\* f"{os.path.splitext(path)[0]}_meta.json"
ct_metadata_path(path) == Path(path.dir, splitext(path.file)[1] \o MetaJson)

\* confused_text.process_file(input_path, output_path, key, prefix, mode,
\* text_mode)
ct_process_file(fs, input_path, output_path, key, prefix, mode, text_mode, g) ==
    IF ~exists(fs, input_path) THEN FileOutcome(FALSE, fs, g, NoPath, NoPath)
    ELSE IF mode = "confuse"
    THEN ct_confused(fs, output_path, ct_metadata_path(output_path),
                     ct_apply_confusion(read(fs, input_path).data, key,
                                        text_mode, g))
    ELSE IF ~exists(fs, ct_metadata_path(input_path))
    THEN FileOutcome(FALSE, fs, g, NoPath, NoPath)
    ELSE ct_restored(fs, output_path,
                     ct_restore_text(
                         read(fs, input_path).data, key,
                         [permutation_key |->
                             read(fs, ct_metadata_path(input_path)).data],
                         text_mode, g))

\* confused_image.process_image, mode 'confuse', after apply_confusion
\* returned or raised r
img_confused(fs, output_path, permutation_path, r) ==
    IF r.exc # "" THEN FileOutcome(FALSE, fs, r, NoPath, NoPath)
    ELSE FileOutcome(TRUE,
                   write(image_save(fs, output_path, r.val[1]),
                         permutation_path, r.val[2], <<Len(r.val[2])>>),
                   r, output_path, permutation_path)

img_restored(fs, output_path, r) ==
    IF r.exc # "" THEN FileOutcome(FALSE, fs, r, NoPath, NoPath)
    ELSE FileOutcome(TRUE, image_save(fs, output_path, r.val), r, output_path,
                   NoPath)

\* confused_image.process_image(image_path, key, output_dir, prefix, mode)
process_image(fs, image_path, key, output_dir, prefix, mode, g) ==
    LET name == splitext(image_path.file)[1]
        output_path == Path(output_dir, prefix \o name \o Png)
    IN  IF ~exists(fs, image_path) THEN FileOutcome(FALSE, fs, g, NoPath, NoPath)
        ELSE IF mode = "confuse"
        THEN img_confused(fs, output_path,
                          Path(output_dir, prefix \o name \o PermNpy),
                          img_apply_confusion(image_open(read(fs, image_path)),
                                              key, g))
        ELSE IF ~exists(fs, Path(image_path.dir, prefix \o name \o PermNpy))
        THEN FileOutcome(FALSE, fs, g, NoPath, NoPath)
        ELSE img_restored(fs, output_path,
                          restore_image(
                              image_open(read(fs, image_path)), key,
                              read(fs, Path(image_path.dir,
                                            prefix \o name \o PermNpy)).data,
                              g))

(***************************************************************************)
(* One process_directory run in confuse mode over an input tree, file by   *)
(* file in os.walk order, then one restore-mode call on one of the files   *)
(* the run wrote.  The frame thr[1] holds the arguments of the run, the    *)
(* file system, the input files the walk has still to reach, one log       *)
(* entry per process_file call of the run, and the restore call.           *)
(***************************************************************************)
InDir == <<"in">>
SubDir == <<"in", "sub">>
OutDir == <<"out">>
RstDir == <<"rst">>

TextFile(dir, file, data) == [dir |-> dir, file |-> file, data |-> data, shape |-> <<>>]
ImageFile(dir, file, data) ==
    [dir |-> dir, file |-> file, data |-> data, shape |-> <<1, 2, 3>>]

\* Input trees: one file; two files with one stem and two extensions; two
\* files of one name in two directories; two files with two stems and one
\* file the tools do not handle.
TextTrees ==
    {{TextFile(InDir, <<97, 46, 116, 120, 116>>, <<97, 98, 99>>)},
     {TextFile(InDir, <<97, 46, 116, 120, 116>>, <<97, 98, 99>>), TextFile(InDir, <<97, 46, 109, 100>>, <<100, 101, 102>>)},
     {TextFile(InDir, <<97, 46, 116, 120, 116>>, <<97, 98, 99>>), TextFile(SubDir, <<97, 46, 116, 120, 116>>, <<100, 101, 102>>)},
     {TextFile(InDir, <<97, 46, 116, 120, 116>>, <<97, 98, 99>>), TextFile(InDir, <<98, 46, 116, 120, 116>>, <<100, 101, 102>>),
      TextFile(InDir, <<99, 46, 100, 97, 116>>, <<103, 104, 105>>)}}

ImageTrees ==
    {{ImageFile(InDir, <<97, 46, 112, 110, 103>>, <<1, 2, 3, 4, 5, 6>>)},
     {ImageFile(InDir, <<97, 46, 112, 110, 103>>, <<1, 2, 3, 4, 5, 6>>),
      ImageFile(InDir, <<97, 46, 106, 112, 103>>, <<9, 8, 7, 6, 5, 4>>)},
     {ImageFile(InDir, <<97, 46, 112, 110, 103>>, <<1, 2, 3, 4, 5, 6>>),
      ImageFile(SubDir, <<97, 46, 112, 110, 103>>, <<9, 8, 7, 6, 5, 4>>)},
     {ImageFile(InDir, <<97, 46, 112, 110, 103>>, <<1, 2, 3, 4, 5, 6>>),
      ImageFile(InDir, <<98, 46, 112, 110, 103>>, <<9, 8, 7, 6, 5, 4>>),
      TextFile(InDir, <<99, 46, 100, 97, 116>>, <<103, 104, 105>>)}}

Prefixes == {<<>>, <<99, 95>>}

\* The runs: tool, text mode, key, and the key of a restore call made with
\* another key.
Runs ==
    {[tool |-> "confused_text", text_mode |-> "basic", key |-> IntKey(3),
      other_key |-> IntKey(4)],
     [tool |-> "text_processor", text_mode |-> "basic", key |-> IntKey(1),
      other_key |-> IntKey(2)],
     [tool |-> "text_processor", text_mode |-> "advanced", key |-> IntKey(1),
      other_key |-> IntKey(2)],
     [tool |-> "text_processor", text_mode |-> "aes", key |-> Password,
      other_key |-> StrKey(<<115, 101, 101, 100, 49>>)],
     [tool |-> "confused_image", text_mode |-> "image", key |-> IntKey(42),
      other_key |-> IntKey(43)]}

NoRestore == [ran |-> FALSE, ret |-> FALSE, entry |-> 0, key |-> IntKey(0),
              output |-> NoPath]

InitFiles ==
    /\ py = 0
    /\ np = 0
    /\ call = NoCall
    /\ phase = "files"
    /\ fwd = NoResult
    /\ rcall = NoCall
    /\ rst = NoResult
    /\ \E run \in Runs, prefix \in Prefixes :
          \E tree \in (IF run.tool = "confused_image" THEN ImageTrees ELSE TextTrees) :
             thr = <<[run |-> run, prefix |-> prefix, fs |-> tree,
                      pending |-> {Path(f.dir, f.file) : f \in tree},
                      log |-> <<>>, corrupted |-> NoPath,
                      restore |-> NoRestore]>>

\* os.walk(input_dir) is top-down: the files of a directory come before those
\* of its subdirectories, in the order the OS lists them.
NextInWalk(pending) ==
    {p \in pending : \A q \in pending : Len(p.dir) <= Len(q.dir)}

\* os.path.join(output_dir, os.path.relpath(root, input_dir))
output_subdir(output_dir, root, input_dir) ==
    output_dir \o SubSeq(root, Len(input_dir) + 1, Len(root))

\* A file the loop passes over: its name has no supported extension.
FileSkipped(p) ==
    /\ thr' = <<[thr[1] EXCEPT !.pending = @ \ {p}]>>
    /\ UNCHANGED <<py, np, call, phase, fwd, rcall, rst>>

\* One iteration of the loop: process_file returned out for input file p.
FileProcessed(p, out) ==
    /\ thr' = <<[thr[1] EXCEPT
                   !.pending = @ \ {p},
                   !.fs = out.fs,
                   !.log = Append(@, [input |-> p, ret |-> out.ret,
                                      output |-> out.output,
                                      sidecar |-> out.sidecar])]>>
    /\ py' = out.py
    /\ np' = out.np
    /\ UNCHANGED <<call, phase, fwd, rcall, rst>>

\* confused_text.process_directory, one file of the walk
CtProcessDirectoryFile ==
    /\ phase = "files"
    /\ thr[1].run.tool = "confused_text"
    /\ \E p \in NextInWalk(thr[1].pending) :
          IF ~supported(p.file, ct_supported_formats) THEN FileSkipped(p)
          ELSE FileProcessed(p,
                  ct_process_file(thr[1].fs, p,
                                  Path(output_subdir(OutDir, p.dir, InDir),
                                       thr[1].prefix \o p.file),
                                  thr[1].run.key, thr[1].prefix, "confuse",
                                  thr[1].run.text_mode, Globals(py, np)))

\* text_processor.process_directory, one file of the walk
TpProcessDirectoryFile ==
    /\ phase = "files"
    /\ thr[1].run.tool = "text_processor"
    /\ \E p \in NextInWalk(thr[1].pending) :
          IF ~supported(p.file, tp_supported_formats) THEN FileSkipped(p)
          ELSE \E salt \in urandom(SaltLen), iv \in urandom(AesBlockSize) :
                  FileProcessed(p,
                      tp_process_file(thr[1].fs, p, thr[1].run.key, OutDir,
                                      thr[1].prefix, "confuse",
                                      thr[1].run.text_mode, salt, iv,
                                      Globals(py, np)))

\* confused_image.process_directory, one file of the walk
ImgProcessDirectoryFile ==
    /\ phase = "files"
    /\ thr[1].run.tool = "confused_image"
    /\ \E p \in NextInWalk(thr[1].pending) :
          IF ~supported(p.file, img_supported_formats) THEN FileSkipped(p)
          ELSE FileProcessed(p,
                  process_image(thr[1].fs, p, thr[1].run.key,
                                output_subdir(OutDir, p.dir, InDir),
                                thr[1].prefix, "confuse", Globals(py, np)))

\* Between the two runs something damages one of the files the run wrote:
\* its first character or sample is replaced.
CorruptFile ==
    /\ phase = "files"
    /\ thr[1].pending = {}
    /\ ~thr[1].restore.ran
    /\ thr[1].corrupted = NoPath
    /\ \E i \in 1..Len(thr[1].log) :
          /\ thr[1].log[i].ret
          /\ exists(thr[1].fs, thr[1].log[i].output)
          /\ read(thr[1].fs, thr[1].log[i].output).data # <<>>
          /\ thr' = <<[thr[1] EXCEPT
                         !.corrupted = thr[1].log[i].output,
                         !.fs = write(@, thr[1].log[i].output,
                                      [read(thr[1].fs, thr[1].log[i].output).data
                                          EXCEPT ![1] = 35],
                                      read(thr[1].fs, thr[1].log[i].output).shape)]>>
    /\ UNCHANGED <<py, np, call, phase, fwd, rcall, rst>>

\* The restore call returned out: entry i of the log was its input.
FileRestored(i, key, out) ==
    /\ thr' = <<[thr[1] EXCEPT
                   !.fs = out.fs,
                   !.restore = [ran |-> TRUE, ret |-> out.ret, entry |-> i,
                                key |-> key, output |-> out.output]]>>
    /\ py' = out.py
    /\ np' = out.np
    /\ UNCHANGED <<call, phase, fwd, rcall, rst>>

RestoreReady(tool) ==
    /\ phase = "files"
    /\ thr[1].run.tool = tool
    /\ thr[1].pending = {}
    /\ ~thr[1].restore.ran

\* confused_text.process_file in restore mode on a file the run wrote, the
\* output path built as process_directory builds it
CtRestoreFile ==
    /\ RestoreReady("confused_text")
    /\ \E i \in 1..Len(thr[1].log), key \in {thr[1].run.key, thr[1].run.other_key} :
          /\ thr[1].log[i].ret
          /\ FileRestored(i, key,
                ct_process_file(thr[1].fs, thr[1].log[i].output,
                                Path(RstDir, thr[1].prefix \o thr[1].log[i].output.file),
                                key, thr[1].prefix, "restore",
                                thr[1].run.text_mode, Globals(py, np)))

\* text_processor.process_file in restore mode on a file the run wrote
TpRestoreFile ==
    /\ RestoreReady("text_processor")
    /\ \E i \in 1..Len(thr[1].log), key \in {thr[1].run.key, thr[1].run.other_key} :
          /\ thr[1].log[i].ret
          /\ FileRestored(i, key,
                tp_process_file(thr[1].fs, thr[1].log[i].output, key, RstDir,
                                thr[1].prefix, "restore", thr[1].run.text_mode,
                                <<>>, <<>>, Globals(py, np)))

\* confused_image.process_image in restore mode on a file the run wrote
ImgRestoreFile ==
    /\ RestoreReady("confused_image")
    /\ \E i \in 1..Len(thr[1].log), key \in {thr[1].run.key, thr[1].run.other_key} :
          /\ thr[1].log[i].ret
          /\ FileRestored(i, key,
                process_image(thr[1].fs, thr[1].log[i].output, key, RstDir,
                              thr[1].prefix, "restore", Globals(py, np)))

NextFiles ==
    \/ CtProcessDirectoryFile
    \/ TpProcessDirectoryFile
    \/ ImgProcessDirectoryFile
    \/ CorruptFile
    \/ CtRestoreFile
    \/ TpRestoreFile
    \/ ImgRestoreFile

SpecFiles == InitFiles /\ [][NextFiles]_vars

\* The restore call of the frame: the log entry whose output it read, the
\* text it read, what it wrote, and the content of the input file the entry
\* was made for (input files are never written: no run writes below "in").
RestoreRan == phase = "files" /\ thr[1].restore.ran
RestoreEntry == thr[1].log[thr[1].restore.entry]
RestoreInput == read(thr[1].fs, RestoreEntry.output)
RestoreOutput == read(thr[1].fs, thr[1].restore.output)
OriginalOf(entry) == read(thr[1].fs, entry.input)

\* The strings aes_decrypt and advanced_text_restore return from their except
\* branches.
FailureMessages ==
    {decode_error_text} \cup
    {decrypt_error_text(e) :
        e \in {"ValueError", "binascii.Error", "UnicodeDecodeError",
               "AttributeError", "Exception"}}

\* C26: in restore mode text_processor.process_file writes a restored file
\* and returns True only when restoration succeeded; when decryption or
\* decoding fails (wrong password, corrupted input) it returns False and does
\* not write the failure message as the restored file's content.
C26_RestoreReportsFailure ==
    (RestoreRan /\ thr[1].run.tool = "text_processor") =>
        /\ (thr[1].run.text_mode = "aes"
              /\ aes_decrypt_try(RestoreInput.data, thr[1].restore.key).exc # "")
               => ~thr[1].restore.ret
        /\ thr[1].restore.ret => RestoreOutput.data \notin FailureMessages
        /\ \A f \in thr[1].fs : f.dir = RstDir => f.data \notin FailureMessages

\* A restore call with another password has returned True and the restored
\* file holds the message of aes_decrypt.
C26_Witness ==
    /\ RestoreRan
    /\ thr[1].run.text_mode = "aes"
    /\ thr[1].restore.key = thr[1].run.other_key
    /\ thr[1].corrupted = NoPath
    /\ thr[1].restore.ret
    /\ RestoreOutput.data \in FailureMessages
    /\ RestoreOutput.data # OriginalOf(RestoreEntry).data

\* The same with the right password on a damaged file.
C26_CorruptedWitness ==
    /\ RestoreRan
    /\ thr[1].run.text_mode = "aes"
    /\ thr[1].restore.key = thr[1].run.key
    /\ thr[1].corrupted = RestoreEntry.output
    /\ thr[1].restore.ret
    /\ RestoreOutput.data \in FailureMessages

\* In mode advanced a restore call has returned True and written the message
\* of advanced_text_restore.
C26_DecodeWitness ==
    /\ RestoreRan
    /\ thr[1].run.text_mode = "advanced"
    /\ thr[1].restore.ret
    /\ RestoreOutput.data = decode_error_text

\* With the right password on an undamaged file the original is restored.
AesRestoresWithPassword ==
    (RestoreRan /\ thr[1].run.text_mode = "aes"
        /\ thr[1].restore.key = thr[1].run.key /\ thr[1].corrupted = NoPath
        /\ \A j \in 1..Len(thr[1].log) :
              j # thr[1].restore.entry => thr[1].log[j].output # RestoreEntry.output)
    => (thr[1].restore.ret /\ RestoreOutput.data = OriginalOf(RestoreEntry).data)

BatchDone == phase = "files" /\ thr[1].pending = {}

\* Entries of the log that wrote something, and pairs of them that wrote one
\* path.
Wrote(i) == thr[1].log[i].ret
SameOutput(i, j) == thr[1].log[i].output = thr[1].log[j].output
SameSidecar(i, j) ==
    thr[1].log[i].sidecar # NoPath /\ thr[1].log[i].sidecar = thr[1].log[j].sidecar

\* The restore call was made with the key of the run on an undamaged file.
FaithfulRestore ==
    /\ RestoreRan
    /\ thr[1].restore.key = thr[1].run.key
    /\ thr[1].corrupted = NoPath

\* C27: in one process_directory run in confuse mode two distinct input files
\* never write the same output path or the same sidecar path (same stem with
\* different extensions, same name in different subdirectories), so after the
\* batch every output can be restored to its own original with its own
\* sidecar.
C27_DistinctOutputPaths ==
    phase = "files" =>
        /\ \A i, j \in 1..Len(thr[1].log) :
              (i # j /\ Wrote(i) /\ Wrote(j)) =>
                  (~SameOutput(i, j) /\ ~SameSidecar(i, j))
        /\ (FaithfulRestore /\ thr[1].prefix = <<>>) =>
              /\ thr[1].restore.ret
              /\ RestoreOutput.data = OriginalOf(RestoreEntry).data

\* text_processor has written two files of one name from two directories to
\* one output path, and the restore of that path gives the content of the
\* file written last, not that of the first.
C27_Witness ==
    /\ FaithfulRestore
    /\ thr[1].run.tool = "text_processor"
    /\ Len(thr[1].log) = 2
    /\ thr[1].log[1].input.dir # thr[1].log[2].input.dir
    /\ SameOutput(1, 2)
    /\ thr[1].restore.entry = 1
    /\ thr[1].restore.ret
    /\ RestoreOutput.data = OriginalOf(thr[1].log[2]).data
    /\ RestoreOutput.data # OriginalOf(thr[1].log[1]).data

\* confused_image has written a.png and a.jpg to one output and one sidecar.
C27_ImageWitness ==
    /\ BatchDone
    /\ thr[1].run.tool = "confused_image"
    /\ Len(thr[1].log) = 2
    /\ thr[1].log[1].input.file # thr[1].log[2].input.file
    /\ SameOutput(1, 2)
    /\ SameSidecar(1, 2)

\* confused_text has written a.txt and a.md to two outputs and one sidecar.
C27_MetadataWitness ==
    /\ BatchDone
    /\ thr[1].run.tool = "confused_text"
    /\ Len(thr[1].log) = 2
    /\ ~SameOutput(1, 2)
    /\ SameSidecar(1, 2)

\* Where the claim holds: confused_text and confused_image keep the files of
\* different directories apart, and files with different stems never share a
\* path.
SubdirectoriesKeptApart ==
    (phase = "files" /\ thr[1].run.tool # "text_processor") =>
        \A i, j \in 1..Len(thr[1].log) :
            (Wrote(i) /\ Wrote(j) /\ thr[1].log[i].input.dir # thr[1].log[j].input.dir)
                => (~SameOutput(i, j) /\ ~SameSidecar(i, j))

DifferentStemsKeptApart ==
    phase = "files" =>
        \A i, j \in 1..Len(thr[1].log) :
            (Wrote(i) /\ Wrote(j)
                /\ splitext(thr[1].log[i].input.file)[1]
                      # splitext(thr[1].log[j].input.file)[1])
                => (~SameOutput(i, j) /\ ~SameSidecar(i, j))

\* The entry the restore call read shares no path with another entry.
RestoreEntryAlone ==
    \A j \in 1..Len(thr[1].log) :
        j # thr[1].restore.entry =>
            (~SameOutput(thr[1].restore.entry, j)
                /\ ~SameSidecar(thr[1].restore.entry, j))

\* C28: for every prefix, empty or not, after a confuse-mode run with prefix
\* p and key K wrote an output file and its sidecar, a restore-mode run on
\* that output file with the same p and K locates the sidecar and reproduces
\* the original content (text_processor.process_file,
\* confused_image.process_image, confused_text.process_file).
C28_RestoreWithPrefix ==
    (FaithfulRestore /\ RestoreEntryAlone) =>
        /\ thr[1].restore.ret
        /\ RestoreOutput.data = OriginalOf(RestoreEntry).data
        /\ RestoreOutput.shape = OriginalOf(RestoreEntry).shape

\* A restore call of text_processor with the prefix of the run has returned
\* False although the sidecar the run wrote is there.
C28_Witness ==
    /\ FaithfulRestore
    /\ RestoreEntryAlone
    /\ thr[1].run.tool = "text_processor"
    /\ thr[1].prefix # <<>>
    /\ exists(thr[1].fs, RestoreEntry.sidecar)
    /\ ~thr[1].restore.ret

\* The same for confused_image.
C28_ImageWitness ==
    /\ FaithfulRestore
    /\ RestoreEntryAlone
    /\ thr[1].run.tool = "confused_image"
    /\ thr[1].prefix # <<>>
    /\ exists(thr[1].fs, RestoreEntry.sidecar)
    /\ ~thr[1].restore.ret

\* Where the claim holds: with the empty prefix for the three tools, with any
\* prefix for confused_text, and in mode aes, which has no sidecar.
RestoreWhereSidecarIsFound ==
    (FaithfulRestore /\ RestoreEntryAlone
        /\ (thr[1].prefix = <<>> \/ thr[1].run.tool = "confused_text"
              \/ thr[1].run.text_mode = "aes")) =>
        /\ thr[1].restore.ret
        /\ RestoreOutput.data = OriginalOf(RestoreEntry).data
        /\ RestoreOutput.shape = OriginalOf(RestoreEntry).shape

\* confused_text has restored a file written with a non-empty prefix.
C28_PrefixedTextWitness ==
    /\ FaithfulRestore
    /\ thr[1].run.tool = "confused_text"
    /\ thr[1].prefix # <<>>
    /\ thr[1].restore.ret
    /\ RestoreOutput.data = OriginalOf(RestoreEntry).data
    /\ RestoreInput.data # OriginalOf(RestoreEntry).data
    /\ RestoreInput.file # OriginalOf(RestoreEntry).file

(***************************************************************************)
(* restore_image and the key.                                              *)
(***************************************************************************)
\* Keys congruent to k modulo 256.
SameResidueKeys(k) == {IntKey(k.n + 256 * d) : d \in -2..2}

\* C29: restore_image depends on the key only through key mod 256: for every
\* pixel buffer, permutation and keys k1, k2 with k1 mod 256 = k2 mod 256,
\* restore_image(pixels, k1, perm) = restore_image(pixels, k2, perm); hence
\* restoring with key K+256 and the stored permutation returns the original.
C29_KeyModulo256 ==
    Restored("confused_image") =>
        /\ \A k2 \in SameResidueKeys(rcall.key) :
              /\ restore_image(rcall.pixels, k2, rcall.metadata.permutation,
                               Globals(fwd.py, fwd.np)).exc = rst.exc
              /\ restore_image(rcall.pixels, k2, rcall.metadata.permutation,
                               Globals(fwd.py, fwd.np)).val = rst.val
        /\ (Len(call.pixels.shape) = 3
              /\ rcall = [ImgFaithfulCall EXCEPT !.key = IntKey(call.key.n + 256)])
               => (rst.exc = "" /\ rst.val = call.pixels)

\* The scenario image confused with key 42 has been restored with key 298.
C29_Witness ==
    /\ Restored("confused_image")
    /\ call.pixels = Scenario
    /\ call.key = IntKey(42)
    /\ rcall = [ImgFaithfulCall EXCEPT !.key = IntKey(298)]
    /\ rst.exc = ""
    /\ rst.val = Scenario
    /\ fwd.val[1] # Scenario

\* A restoration with a key of another residue gives another image.
C29_OtherResidueWitness ==
    /\ Restored("confused_image")
    /\ call.pixels = Scenario
    /\ rcall = [ImgFaithfulCall EXCEPT !.key = IntKey(43)]
    /\ rst.exc = ""
    /\ rst.val # Scenario

(***************************************************************************)
(* src/comfyui/scripts/copy_rename.py                                      *)
(* A directory is a set of files [name, data], the name a str.             *)
(***************************************************************************)
IsDigit(c) == c \in 48..57                                 \* \d, str.isdigit
IsWord(c) == c \in (48..57) \cup (65..90) \cup (97..122) \cup {95}      \* \w

\* pattern.match(filename) for ^{re.escape(prefix)}(\d{digits})\.\w+$
pattern_match(prefix, ndigits, filename) ==
    LET p == Len(prefix)
    IN  /\ Len(filename) >= p + ndigits + 2
        /\ SubSeq(filename, 1, p) = prefix
        /\ \A i \in (p + 1)..(p + ndigits) : IsDigit(filename[i])
        /\ filename[p + ndigits + 1] = 46
        /\ \A i \in (p + ndigits + 2)..Len(filename) : IsWord(filename[i])

\* get_max_sequence(dest_dir, prefix, digits)
get_max_sequence(dest_dir, prefix, ndigits) ==
    LET seqs == {decimal_value(SubSeq(f.name, Len(prefix) + 1, Len(prefix) + ndigits)) :
                    f \in {d \in dest_dir : pattern_match(prefix, ndigits, d.name)}}
    IN  IF seqs = {} THEN 0 ELSE CHOOSE m \in seqs : \A s \in seqs : s <= m

\* f"{n:0{digits}d}": the decimal digits of n, padded with zeros on the left
\* to at least digits characters
format_sequence(n, ndigits) ==
    [i \in 1..(ndigits - Len(decimal(n))) |-> 48] \o decimal(n)

\* The length of the longest prefix of s whose characters are all digits
\* (digit = TRUE) or all not digits (digit = FALSE).
RECURSIVE run_length(_, _)
run_length(s, digit) ==
    IF s = <<>> \/ IsDigit(s[1]) # digit THEN 0
    ELSE 1 + run_length(Tail(s), digit)

\* The sort key of a name: re.split(r'(\d+)', f) gives strings and digit runs
\* in turn, starting and ending with a string; a digit run becomes its int,
\* a string its lower().
RECURSIVE natural_key(_)
natural_key(f) ==
    LET a == run_length(f, FALSE)
        rest == SubSeq(f, a + 1, Len(f))
        b == run_length(rest, TRUE)
    IN  IF rest = <<>> THEN <<[s |-> lower(f), n |-> 0]>>
        ELSE <<[s |-> lower(SubSeq(f, 1, a)), n |-> 0],
               [s |-> <<>>, n |-> decimal_value(SubSeq(rest, 1, b))]>>
             \o natural_key(SubSeq(rest, b + 1, Len(rest)))

\* Python's < on two str, and on two lists of such keys
str_less(a, b) ==
    \/ Len(a) < Len(b) /\ SubSeq(b, 1, Len(a)) = a
    \/ \E i \in 1..Len(a) :
          /\ i <= Len(b)
          /\ SubSeq(a, 1, i - 1) = SubSeq(b, 1, i - 1)
          /\ a[i] < b[i]

key_less(ka, kb) ==
    \/ Len(ka) < Len(kb) /\ SubSeq(kb, 1, Len(ka)) = ka
    \/ \E i \in 1..Len(ka) :
          /\ i <= Len(kb)
          /\ SubSeq(ka, 1, i - 1) = SubSeq(kb, 1, i - 1)
          /\ \/ ka[i].n < kb[i].n
             \/ ka[i].n = kb[i].n /\ str_less(ka[i].s, kb[i].s)

\* What src_files.sort(key=...) can leave: the files of the directory, each
\* once, no file before one with a smaller key (files with equal keys stay in
\* the order os.listdir gave them, which is any order).
sorted_listings(src_dir) ==
    {o \in [1..Cardinality(src_dir) -> src_dir] :
        /\ \A i, j \in DOMAIN o : o[i] = o[j] => i = j
        /\ \A i, j \in DOMAIN o :
              i < j => ~key_less(natural_key(o[j].name), natural_key(o[i].name))}

\* new_filename = f"{prefix}{start_seq + i:0{digits}d}{ext}"
new_filename(prefix, ndigits, start_seq, i, file) ==
    prefix \o format_sequence(start_seq + i, ndigits) \o splitext(file)[2]

\* shutil.copy2 of src_files[k..] in turn; a file of that name is replaced
RECURSIVE copy_files(_, _, _, _, _, _)
copy_files(dest_dir, src_files, k, prefix, ndigits, start_seq) ==
    IF k > Len(src_files) THEN dest_dir
    ELSE copy_files(
            {d \in dest_dir :
                d.name # new_filename(prefix, ndigits, start_seq, k - 1, src_files[k].name)}
              \cup {[name |-> new_filename(prefix, ndigits, start_seq, k - 1,
                                           src_files[k].name),
                     data |-> src_files[k].data]},
            src_files, k + 1, prefix, ndigits, start_seq)

\* copy_and_rename_files(src_dir, dest_dir, prefix, digits) with the sorted
\* listing src_files: the destination directory it leaves
copy_and_rename_files(src_files, dest_dir, prefix, ndigits) ==
    copy_files(dest_dir, src_files, 1, prefix, ndigits,
               get_max_sequence(dest_dir, prefix, ndigits) + 1)

(***************************************************************************)
(* Runs of copy_and_rename_files into one destination with one prefix and  *)
(* one digit width.  The frame thr[1] holds the prefix, the width, the     *)
(* destination directory, the sequence numbers used so far, and one record *)
(* per run: its sorted listing, its first number, the names it wrote and   *)
(* those of them that were there before.                                   *)
(***************************************************************************)
MaxRuns == 3

SourceFile(name) == [name |-> name, data |-> name]

SourceDirs ==
    {{SourceFile(<<97, 46, 116, 120, 116>>)},
     {SourceFile(<<105, 109, 103, 49, 48, 46, 112, 110, 103>>), SourceFile(<<105, 109, 103, 50, 46, 112, 110, 103>>), SourceFile(<<105, 109, 103, 49, 46, 112, 110, 103>>)},
     {SourceFile(<<98, 46, 116, 120, 116>>), SourceFile(<<65, 46, 116, 120, 116>>), SourceFile(<<114, 101, 97, 100, 109, 101>>)},
     {SourceFile(<<119, 46, 116, 120, 116>>), SourceFile(<<120, 46, 116, 120, 116>>), SourceFile(<<121, 46, 116, 120, 116>>),
      SourceFile(<<122, 46, 109, 100>>)}}

CopyPrefix == <<112>>

\* Sequence numbers the destination may hold before the first run: none, or
\* the one three below the first number that needs more than digits digits.
InitialSequences(ndigits) == {0, (IF ndigits = 1 THEN 10 ELSE 100) - 3}

InitCopy ==
    /\ py = 0
    /\ np = 0
    /\ call = NoCall
    /\ phase = "copy"
    /\ fwd = NoResult
    /\ rcall = NoCall
    /\ rst = NoResult
    /\ \E ndigits \in {1, 2} : \E n \in InitialSequences(ndigits) :
          thr = <<[prefix |-> CopyPrefix, digits |-> ndigits,
                   dest_dir |-> IF n = 0 THEN {}
                                ELSE {[name |-> CopyPrefix \o format_sequence(n, ndigits)
                                                   \o <<46, 116, 120, 116>>,
                                       data |-> <<>>]},
                   used |-> IF n = 0 THEN {} ELSE {n},
                   runs |-> <<>>]>>

\* The names a run writes, in the order it writes them.
NewNames(src_files, prefix, ndigits, start_seq) ==
    [k \in 1..Len(src_files) |->
        new_filename(prefix, ndigits, start_seq, k - 1, src_files[k].name)]

CopyRan(src_files, start_seq) ==
    /\ thr' = <<[thr[1] EXCEPT
                   !.dest_dir = copy_and_rename_files(src_files, thr[1].dest_dir,
                                                      thr[1].prefix, thr[1].digits),
                   !.used = @ \cup {start_seq + k - 1 : k \in 1..Len(src_files)},
                   !.runs = Append(@,
                       [src_files |-> src_files,
                        start_seq |-> start_seq,
                        used_before |-> thr[1].used,
                        names |-> NewNames(src_files, thr[1].prefix,
                                           thr[1].digits, start_seq),
                        overwritten |->
                            {d.name : d \in thr[1].dest_dir} \cap
                            {NewNames(src_files, thr[1].prefix, thr[1].digits,
                                      start_seq)[k] : k \in 1..Len(src_files)}])]>>
    /\ UNCHANGED <<py, np, call, phase, fwd, rcall, rst>>

\* One call of copy_and_rename_files on one of the source directories.
CopyAndRenameFiles ==
    /\ phase = "copy"
    /\ Len(thr[1].runs) < MaxRuns
    /\ \E src_dir \in SourceDirs : \E src_files \in sorted_listings(src_dir) :
          CopyRan(src_files,
                  get_max_sequence(thr[1].dest_dir, thr[1].prefix,
                                   thr[1].digits) + 1)

NextCopy == CopyAndRenameFiles

SpecCopy == InitCopy /\ [][NextCopy]_vars

SetMax(S) == IF S = {} THEN 0 ELSE CHOOSE m \in S : \A s \in S : s <= m

\* C30: over any sequence of copy_and_rename_files runs into one destination
\* with one prefix and digit width, each copied file gets a sequence number
\* strictly greater than every number already used for that prefix (numbers
\* are consecutive from the previous maximum + 1, in natural sort order of the
\* source names), so no run overwrites a file written by an earlier run, also
\* once the numbers need more digits than the configured width.
C30_SequenceNumbersGrow ==
    phase = "copy" =>
        \A r \in 1..Len(thr[1].runs) :
            /\ thr[1].runs[r].start_seq = SetMax(thr[1].runs[r].used_before) + 1
            /\ thr[1].runs[r].overwritten = {}
            /\ \A i, j \in 1..Len(thr[1].runs[r].src_files) :
                  i < j => ~key_less(natural_key(thr[1].runs[r].src_files[j].name),
                                     natural_key(thr[1].runs[r].src_files[i].name))

\* A run has started at number 10 with width 1 although 10 was used, and has
\* overwritten the file an earlier run wrote under that number.
C30_Witness ==
    /\ phase = "copy"
    /\ thr[1].digits = 1
    /\ Len(thr[1].runs) = 2
    /\ 10 \in thr[1].runs[2].used_before
    /\ thr[1].runs[2].start_seq = 10
    /\ thr[1].runs[2].overwritten # {}
    /\ \A k \in 1..Len(thr[1].runs[1].src_files) :
          splitext(thr[1].runs[1].src_files[k].name)[2] # <<>>

\* A file without extension was copied, and the next run started at its
\* number again.
C30_NoExtensionWitness ==
    /\ phase = "copy"
    /\ thr[1].digits = 2
    /\ Len(thr[1].runs) = 2
    /\ thr[1].runs[1].start_seq = 1
    /\ thr[1].runs[2].start_seq \in thr[1].runs[2].used_before

\* Where the claim holds: when every source file has an extension and every
\* number used fits the width, each run starts above every number used
\* before it and overwrites nothing.
NumbersGrowWithinWidth ==
    (/\ phase = "copy"
     /\ \A n \in thr[1].used : Len(decimal(n)) <= thr[1].digits
     /\ \A r \in 1..Len(thr[1].runs) : \A k \in 1..Len(thr[1].runs[r].src_files) :
           splitext(thr[1].runs[r].src_files[k].name)[2] # <<>>)
    => \A r \in 1..Len(thr[1].runs) :
          /\ thr[1].runs[r].start_seq = SetMax(thr[1].runs[r].used_before) + 1
          /\ thr[1].runs[r].overwritten = {}

\* The natural order: img1, img2, img10 were numbered in this order.
C30_NaturalOrderWitness ==
    /\ phase = "copy"
    /\ Len(thr[1].runs) = 1
    /\ thr[1].digits = 2
    /\ thr[1].runs[1].names = <<<<112, 48, 49, 46, 112, 110, 103>>, <<112, 48, 50, 46, 112, 110, 103>>, <<112, 48, 51, 46, 112, 110, 103>>>>
    /\ thr[1].runs[1].src_files[3].name = <<105, 109, 103, 49, 48, 46, 112, 110, 103>>

=============================================================================
